---------------------------- MODULE Spec2Model ----------------------------
(***************************************************************************)
(* DataCrew-AutoPilot: the generate -> review -> compliance-gate ->        *)
(* execute pipeline of src/app.py, with its SQL extraction, its session    *)
(* state and its history.                                                  *)
(*                                                                         *)
(* Text.  A Python str is a sequence of characters; a character is a       *)
(* one-character TLA+ string.  The newline is "\n".  A CJK character is    *)
(* written by its code point: "u5408" (he), "u89C4" (gui), "u901A" (tong), *)
(* "u8FC7" (guo), "u4E0D" (bu), "u8FDD" (wei); the backtick is "u0060".   *)
(*                                                                         *)
(* Python values that may be something else than a str (a record field     *)
(* that may be None, a value parsed from JSON) are tagged records          *)
(* [t |-> type, v |-> what str() gives for the value].                     *)
(***************************************************************************)
EXTENDS Integers, Sequences, FiniteSets, TLC

VARIABLES
    analysis_history,          \* st.session_state["analysis_history"]: sequence of record ids
    llm_cost,                  \* st.session_state["llm_cost"]
    current_cell,              \* st.session_state["current_cell"]: a record id, or 0 for None
    enable_manual_intervention,\* st.session_state["enable_manual_intervention"]
    manual_intervention_mode,  \* st.session_state["manual_intervention_mode"]
    generated_sql_info,        \* st.session_state["generated_sql_info"]
    records,                   \* the record objects (dicts) alive, by id
    next_id,                   \* how many records create_analysis_record has made
    add_failures,              \* how many times appending to the history has raised
    pc,                        \* where the running handler stands ("idle": none runs)
    frame,                     \* the local variables of the running handler
    run,                       \* what the running (or the last) handler did: observation only
    call                       \* a call of one function by itself: its argument and what it returns

vars == <<analysis_history, llm_cost, current_cell, enable_manual_intervention,
          manual_intervention_mode, generated_sql_info, records, next_id,
          add_failures, pc, frame, run, call>>

----------------------------------------------------------------------------
(* Bounds of the model.                                                    *)

\* records created in one session
MaxRecords == 1
\* times add_to_history raises in one session
MaxAddFailures == 2

----------------------------------------------------------------------------
(* Python str operations.                                                  *)

NL == "\n"
Whitespace == {" ", NL, "\t"}

UpperCase == <<"A","B","C","D","E","F","G","H","I","J","K","L","M",
               "N","O","P","Q","R","S","T","U","V","W","X","Y","Z">>
LowerCase == <<"a","b","c","d","e","f","g","h","i","j","k","l","m",
               "n","o","p","q","r","s","t","u","v","w","x","y","z">>

\* str.lower() of one character
LowerChar(c) ==
    IF \E i \in 1..26 : UpperCase[i] = c
    THEN LowerCase[CHOOSE i \in 1..26 : UpperCase[i] = c]
    ELSE c

\* str.upper() of one character
UpperChar(c) ==
    IF \E i \in 1..26 : LowerCase[i] = c
    THEN UpperCase[CHOOSE i \in 1..26 : LowerCase[i] = c]
    ELSE c

Lower(s) == [i \in 1..Len(s) |-> LowerChar(s[i])]
Upper(s) == [i \in 1..Len(s) |-> UpperChar(s[i])]

\* s[i:] (1-based, i may be Len(s)+1)
From(s, i) == SubSeq(s, i, Len(s))

\* p occurs in s at position i
MatchAt(s, i, p) ==
    /\ i >= 1
    /\ i + Len(p) - 1 <= Len(s)
    /\ \A k \in 1..Len(p) : s[i + k - 1] = p[k]

\* p occurs in s at position i, whatever the case (re.IGNORECASE)
MatchAtNoCase(s, i, p) == MatchAt(Lower(s), i, Lower(p))

\* p in s
Contains(s, p) == \E i \in 1..(Len(s) + 1) : MatchAt(s, i, p)

StartsWith(s, p) == MatchAt(s, 1, p)
EndsWith(s, p) == Len(p) <= Len(s) /\ MatchAt(s, Len(s) - Len(p) + 1, p)

\* the least and the greatest member of a set of positions, 0 for the empty set
First(S) == IF S = {} THEN 0 ELSE CHOOSE k \in S : \A m \in S : k <= m
Last(S) == IF S = {} THEN 0 ELSE CHOOSE k \in S : \A m \in S : k >= m

\* the first position >= i where p occurs in s, or 0
Find(s, i, p) == First({k \in i..(Len(s) + 1) : MatchAt(s, k, p)})

\* str.strip(chars): every leading and trailing character of the set goes
Span(s, lo, hi) == IF lo = 0 THEN <<>> ELSE SubSeq(s, lo, hi)
StripChars(s, chars) ==
    Span(s, First({i \in 1..Len(s) : s[i] \notin chars}),
            Last({i \in 1..Len(s) : s[i] \notin chars}))

\* str.strip()
Strip(s) == StripChars(s, Whitespace)

\* the first position >= i of s that holds no whitespace (Len(s)+1 when none): what \s* consumes
RECURSIVE SkipSpace(_, _)
SkipSpace(s, i) ==
    IF i <= Len(s) /\ s[i] \in Whitespace THEN SkipSpace(s, i + 1) ELSE i

\* str.split("\n")
RECURSIVE SplitLines(_)
SplitAt(s, k) == <<SubSeq(s, 1, k - 1)>> \o SplitLines(From(s, k + 1))
SplitLines(s) == IF Contains(s, <<NL>>) THEN SplitAt(s, Find(s, 1, <<NL>>)) ELSE <<s>>

\* " ".join(lines)
RECURSIVE JoinSpace(_)
JoinSpace(lines) ==
    IF lines = <<>> THEN <<>>
    ELSE IF Len(lines) = 1 THEN lines[1]
    ELSE lines[1] \o <<" ">> \o JoinSpace(Tail(lines))

\* re.sub(r'\s+', ' ', s): every character that is no whitespace stays, and the
\* first character of a run of whitespace becomes one space
Positions(s) == [i \in 1..Len(s) |-> i]
StaysAt(s, i) == s[i] \notin Whitespace \/ i = 1 \/ s[i - 1] \notin Whitespace
Collapsed(s, kept) ==
    [k \in 1..Len(kept) |-> IF s[kept[k]] \in Whitespace THEN " " ELSE s[kept[k]]]
CollapseSpace(s) == Collapsed(s, SelectSeq(Positions(s), LAMBDA i : StaysAt(s, i)))

----------------------------------------------------------------------------
(* Python values.                                                          *)

\* repr() of a str without quote characters, as str(dict) shows it
ReprStr(s) == <<"'">> \o s \o <<"'">>

PyStr(s) == [t |-> "str", v |-> s, items |-> <<>>]
PyInt(digits) == [t |-> "int", v |-> digits, items |-> <<>>]
PyNone == [t |-> "NoneType", v |-> <<"N","o","n","e">>, items |-> <<>>]
PyTrue == [t |-> "bool", v |-> <<"T","r","u","e">>, items |-> <<>>]
PyFalse == [t |-> "bool", v |-> <<"F","a","l","s","e">>, items |-> <<>>]

\* str(dict): "{'k': v, ...}" of the items <<key, value>>, keys being str
ItemRepr(it) ==
    ReprStr(it[1]) \o <<":", " ">> \o (IF it[2].t = "str" THEN ReprStr(it[2].v) ELSE it[2].v)
RECURSIVE DictRepr(_)
DictRepr(items) ==
    IF items = <<>> THEN <<>>
    ELSE ItemRepr(items[1])
         \o (IF Len(items) = 1 THEN <<>> ELSE <<",", " ">> \o DictRepr(Tail(items)))

\* a dict is its items <<key, value>> in insertion order (a repeated key keeps its last value)
PyDict(items) == [t |-> "dict", v |-> <<"{">> \o DictRepr(items) \o <<"}">>, items |-> items]

\* str(x)
Str(x) == x.v

\* bool(x): the truth value Python gives x
Truthy(x) ==
    CASE x.t = "str" -> x.v # <<>>
      [] x.t = "int" -> x.v # <<"0">>
      [] x.t = "NoneType" -> FALSE
      [] x.t = "bool" -> x.v = <<"T","r","u","e">>
      [] x.t = "dict" -> x.items # <<>>
      [] OTHER -> TRUE

\* key in d
DictHas(d, key) == \E i \in 1..Len(d.items) : d.items[i][1] = key

\* d[key], for a key that is in d
DictGet(d, key) == d.items[Last({i \in 1..Len(d.items) : d.items[i][1] = key})][2]

----------------------------------------------------------------------------
(* json.loads, for the JSON the texts of this model can hold: objects,     *)
(* strings without escapes, integers, null, true, false.  A text with a    *)
(* backslash, a bracket or a fraction is outside the model's alphabets.    *)

Digits == {"0","1","2","3","4","5","6","7","8","9"}
Quote == "\""

JsonFail == [ok |-> FALSE, val |-> PyNone, pos |-> 0]

\* a JSON string whose opening quote is s[i]
JsonStringTo(s, i, close) ==
    IF close = 0 \/ \E k \in (i + 1)..(close - 1) : s[k] \in {NL, "\t", "\\"}
    THEN JsonFail
    ELSE [ok |-> TRUE, val |-> PyStr(SubSeq(s, i + 1, close - 1)), pos |-> close + 1]
JsonString(s, i) == JsonStringTo(s, i, Find(s, i + 1, <<Quote>>))

\* the first position >= i of s that holds no digit
RECURSIVE SkipDigits(_, _)
SkipDigits(s, i) ==
    IF i <= Len(s) /\ s[i] \in Digits THEN SkipDigits(s, i + 1) ELSE i

\* a JSON integer starting at s[i]
JsonNumberTo(s, i, d, e) ==
    IF e = d THEN JsonFail
    ELSE [ok |-> TRUE, pos |-> e,
          val |-> PyInt(IF SubSeq(s, i, e - 1) = <<"-", "0">> THEN <<"0">>
                        ELSE SubSeq(s, i, e - 1))]
JsonDigits(s, i, d) ==
    JsonNumberTo(s, i, d, IF d <= Len(s) /\ s[d] = "0" THEN d + 1 ELSE SkipDigits(s, d))
JsonNumber(s, i) == JsonDigits(s, i, IF s[i] = "-" THEN i + 1 ELSE i)

RECURSIVE JsonValue(_, _)
RECURSIVE JsonMembers(_, _, _)

\* the object goes on after the value val of the key key
JsonAfterValue(s, items, val, after) ==
    IF ~val.ok \/ after > Len(s) THEN JsonFail
    ELSE IF s[after] = "}" THEN [ok |-> TRUE, val |-> PyDict(items), pos |-> after + 1]
    ELSE IF s[after] = "," THEN JsonMembers(s, SkipSpace(s, after + 1), items)
    ELSE JsonFail

JsonMember(s, acc, key, val) ==
    JsonAfterValue(s, Append(acc, <<key.val.v, val.val>>), val,
                   IF val.ok THEN SkipSpace(s, val.pos) ELSE 0)

JsonAfterKey(s, acc, key, colon) ==
    IF ~key.ok \/ colon > Len(s) \/ s[colon] # ":" THEN JsonFail
    ELSE JsonMember(s, acc, key, JsonValue(s, SkipSpace(s, colon + 1)))

JsonKey(s, acc, key) == JsonAfterKey(s, acc, key, IF key.ok THEN SkipSpace(s, key.pos) ELSE 0)

\* the members of an object from s[i] on (a key is due at s[i]); acc holds the earlier ones
JsonMembers(s, i, acc) ==
    IF i > Len(s) \/ s[i] # Quote THEN JsonFail ELSE JsonKey(s, acc, JsonString(s, i))

\* the object whose first member, or closing brace, is due at s[j]
JsonObject(s, j) ==
    IF j <= Len(s) /\ s[j] = "}"
    THEN [ok |-> TRUE, val |-> PyDict(<<>>), pos |-> j + 1]
    ELSE JsonMembers(s, j, <<>>)

\* the JSON value starting at s[i]
JsonValue(s, i) ==
    IF i > Len(s) THEN JsonFail
    ELSE IF s[i] = Quote THEN JsonString(s, i)
    ELSE IF s[i] = "{" THEN JsonObject(s, SkipSpace(s, i + 1))
    ELSE IF s[i] \in Digits \cup {"-"} THEN JsonNumber(s, i)
    ELSE IF MatchAt(s, i, <<"n","u","l","l">>)
         THEN [ok |-> TRUE, val |-> PyNone, pos |-> i + 4]
    ELSE IF MatchAt(s, i, <<"t","r","u","e">>)
         THEN [ok |-> TRUE, val |-> PyTrue, pos |-> i + 4]
    ELSE IF MatchAt(s, i, <<"f","a","l","s","e">>)
         THEN [ok |-> TRUE, val |-> PyFalse, pos |-> i + 5]
    ELSE JsonFail

\* json.loads(s): ok = FALSE stands for json.JSONDecodeError
JsonWhole(s, r) == IF r.ok /\ SkipSpace(s, r.pos) = Len(s) + 1 THEN r ELSE JsonFail
json_loads(s) == JsonWhole(s, JsonValue(s, SkipSpace(s, 1)))

----------------------------------------------------------------------------
(* SQL extraction: clean_sql_content and extract_sql_from_response.        *)

\* one line of clean_sql_content's loop: what is appended for it, <<>> when the line is dropped
CleanStripped(line) ==
    IF line = <<>> \/ StartsWith(line, <<"-", "-">>) \/ StartsWith(line, <<"#">>)
    THEN <<>>
    ELSE IF Contains(line, <<"-", "-">>)
         THEN Strip(SubSeq(line, 1, Find(line, 1, <<"-", "-">>) - 1))
         ELSE line
CleanLine(raw) == CleanStripped(Strip(raw))

\* the lines that survive, in order
RECURSIVE CleanedLines(_)
Kept(l) == IF l = <<>> THEN <<>> ELSE <<l>>
CleanedLines(lines) ==
    IF lines = <<>> THEN <<>>
    ELSE Kept(CleanLine(Head(lines))) \o CleanedLines(Tail(lines))

\* clean_sql_content without the closing ';'
clean_sql_contentUnterminated(sql_content) ==
    IF sql_content = <<>> THEN <<>>
    ELSE Strip(CollapseSpace(JoinSpace(CleanedLines(SplitLines(
             StripChars(Strip(sql_content), {Quote, "'"}))))))

\* clean_sql_content(sql_content), for a str
Terminated(sql_query) ==
    IF sql_query # <<>> /\ ~EndsWith(sql_query, <<";">>) THEN sql_query \o <<";">> ELSE sql_query
clean_sql_content(sql_content) ==
    IF sql_content = <<>> THEN <<>>
    ELSE Terminated(Strip(CollapseSpace(JoinSpace(CleanedLines(SplitLines(
             StripChars(Strip(sql_content), {Quote, "'"})))))))

\* three backticks
Fence == <<"u0060", "u0060", "u0060">>
FenceJson == Fence \o <<"j", "s", "o", "n">>
FenceSql == Fence \o <<"s", "q", "l">>
KwSelect == <<"S", "E", "L", "E", "C", "T">>
KwWith == <<"W", "I", "T", "H">>
KwInsert == <<"I", "N", "S", "E", "R", "T">>
KwUpdate == <<"U", "P", "D", "A", "T", "E">>
KwDelete == <<"D", "E", "L", "E", "T", "E">>

\* the field names tried, in order
SqlFields == << <<"s","q","l","q","u","e","r","y">>,
                <<"r","e","v","i","e","w","e","d","_","s","q","l","q","u","e","r","y">>,
                <<"s","q","l","_","q","u","e","r","y">>,
                <<"q","u","e","r","y">> >>

NoMatch == [found |-> FALSE, group |-> <<>>]
Found(group) == [found |-> TRUE, group |-> group]

\* re.search(r'```json\s*(\{.*?\})\s*```', s, re.DOTALL): group(1) of the leftmost match
JsonFenceEndsFrom(s, j) ==
    IF j <= Len(s) /\ s[j] = "{"
    THEN {k \in (j + 1)..Len(s) : s[k] = "}" /\ MatchAt(s, SkipSpace(s, k + 1), Fence)}
    ELSE {}
JsonFenceEnds(s, i) == JsonFenceEndsFrom(s, SkipSpace(s, i + Len(FenceJson)))

JsonFenceAt(s, i) ==
    IF i = 0 THEN NoMatch
    ELSE Found(SubSeq(s, SkipSpace(s, i + Len(FenceJson)), First(JsonFenceEnds(s, i))))
JsonFenceMatch(s) ==
    JsonFenceAt(s, First({i \in 1..Len(s) : MatchAt(s, i, FenceJson) /\ JsonFenceEnds(s, i) # {}}))

\* re.search(r'```sql\s*(.*?)\s*```', s, re.DOTALL): group(1) of the leftmost match
SqlFenceEndsFrom(s, q) == {k \in q..(Len(s) + 1) : MatchAt(s, SkipSpace(s, k), Fence)}
SqlFenceEnds(s, i) == SqlFenceEndsFrom(s, SkipSpace(s, i + Len(FenceSql)))

SqlFenceAt(s, i) ==
    IF i = 0 THEN NoMatch
    ELSE Found(SubSeq(s, SkipSpace(s, i + Len(FenceSql)), First(SqlFenceEnds(s, i)) - 1))
SqlFenceMatch(s) ==
    SqlFenceAt(s, First({i \in 1..Len(s) : MatchAt(s, i, FenceSql) /\ SqlFenceEnds(s, i) # {}}))

\* re.search(r'(SELECT\s+.*?(?:;|$))', s, re.DOTALL | re.IGNORECASE): the leftmost match.
\* $ holds at the end of s and before a newline that ends s.
SelectSpanTo(s, i, k) == Found(SubSeq(s, i, IF k <= Len(s) /\ s[k] = ";" THEN k ELSE k - 1))
SelectSpanFrom(s, i, q) ==
    SelectSpanTo(s, i, First({k \in q..Len(s) : s[k] = ";" \/ (k = Len(s) /\ s[k] = NL)}
                             \cup {Len(s) + 1}))
SelectSpanAt(s, i) == IF i = 0 THEN NoMatch ELSE SelectSpanFrom(s, i, SkipSpace(s, i + 6))
SelectSpanMatch(s) ==
    SelectSpanAt(s, First({i \in 1..Len(s) : /\ MatchAtNoCase(s, i, KwSelect)
                                             /\ i + 6 <= Len(s)
                                             /\ s[i + 6] \in Whitespace}))

\* re.search(kw + r'\s+[^;]+;', s, re.DOTALL | re.IGNORECASE): the leftmost match
StatementSemi(i, kw, semi) == IF semi >= i + Len(kw) + 2 THEN semi ELSE 0
StatementEnd(s, i, kw) ==
    IF MatchAtNoCase(s, i, kw) /\ i + Len(kw) <= Len(s) /\ s[i + Len(kw)] \in Whitespace
    THEN StatementSemi(i, kw, Find(s, i + Len(kw), <<";">>))
    ELSE 0

StatementAt(s, kw, i) == IF i = 0 THEN NoMatch ELSE Found(SubSeq(s, i, StatementEnd(s, i, kw)))
StatementMatch(s, kw) == StatementAt(s, kw, First({i \in 1..Len(s) : StatementEnd(s, i, kw) # 0}))

\* sql_patterns, in order
SqlPatterns == <<KwSelect, KwWith, KwInsert, KwUpdate, KwDelete>>

\* the for loop over the field names of a parsed object: "return" with the cleaned SQL
\* of the first field present, "raise" when cleaning that field's value raises (a value
\* that is true and no str: len() or .strip() fails), "none" when no field is present
NoField == [kind |-> "none", sql |-> <<>>]
FieldValue(sql_content) ==
    IF ~Truthy(sql_content) THEN [kind |-> "return", sql |-> <<>>]
    ELSE IF sql_content.t # "str" THEN [kind |-> "raise", sql |-> <<>>]
    ELSE [kind |-> "return", sql |-> clean_sql_content(sql_content.v)]
FieldAt(d, n) == IF n = 0 THEN NoField ELSE FieldValue(DictGet(d, SqlFields[n]))
ExtractField(d) == FieldAt(d, First({n \in 1..Len(SqlFields) : DictHas(d, SqlFields[n])}))

\* the fields of a parsed text (a text that does not parse has none)
ExtractParsed(parsed) == IF parsed.ok THEN ExtractField(parsed.val) ELSE NoField

\* strategy 1: the whole response as a JSON object
ExtractRawJson(response_text) ==
    ExtractParsed(IF StartsWith(Strip(response_text), <<"{">>)
                  THEN json_loads(response_text) ELSE JsonFail)

\* strategy 2: a ```json block
ParsedBlock(json_match) ==
    ExtractParsed(IF json_match.found THEN json_loads(json_match.group) ELSE JsonFail)
ExtractJsonBlock(response_text) == ParsedBlock(JsonFenceMatch(response_text))

\* the statement patterns tried in order: the first that matches
FirstFound(matches) ==
    IF \E n \in DOMAIN matches : matches[n].found
    THEN matches[CHOOSE n \in DOMAIN matches :
                     matches[n].found /\ \A m \in 1..(n - 1) : ~matches[m].found]
    ELSE NoMatch
PatternMatch(response_text) ==
    FirstFound([n \in 1..Len(SqlPatterns) |-> StatementMatch(response_text, SqlPatterns[n])])

\* extract_sql_from_response with the strategy that returned:
\* 1 raw JSON, 2 json block, 3 sql block, 4 SELECT span, 5 cleaned text holding SELECT,
\* 6 statement pattern, 7 cleaned text, 0 the except branch
Chosen(s1, s2, sql_match, select_match, cleaned, pattern) ==
    IF s1.kind = "return" THEN [strategy |-> 1, text |-> s1.sql, clean |-> FALSE]
    ELSE IF s1.kind = "raise" THEN [strategy |-> 0, text |-> cleaned, clean |-> FALSE]
    ELSE IF s2.kind = "return" THEN [strategy |-> 2, text |-> s2.sql, clean |-> FALSE]
    ELSE IF s2.kind = "raise" THEN [strategy |-> 0, text |-> cleaned, clean |-> FALSE]
    ELSE IF sql_match.found THEN [strategy |-> 3, text |-> sql_match.group, clean |-> TRUE]
    ELSE IF select_match.found
         THEN [strategy |-> 4, text |-> select_match.group, clean |-> TRUE]
    ELSE IF Contains(Upper(cleaned), KwSelect)
         THEN [strategy |-> 5, text |-> cleaned, clean |-> FALSE]
    ELSE IF pattern.found THEN [strategy |-> 6, text |-> pattern.group, clean |-> TRUE]
    ELSE [strategy |-> 7, text |-> cleaned, clean |-> FALSE]
Cleaned(c) ==
    [strategy |-> c.strategy, sql |-> IF c.clean THEN clean_sql_content(c.text) ELSE c.text]
ExtractTrace(response_text) ==
    Cleaned(Chosen(ExtractRawJson(response_text), ExtractJsonBlock(response_text),
                   SqlFenceMatch(response_text), SelectSpanMatch(response_text),
                   clean_sql_content(response_text), PatternMatch(response_text)))

\* extract_sql_from_response(response_text)
extract_sql_from_response(response_text) == ExtractTrace(response_text).sql

----------------------------------------------------------------------------
(* Messages and tokens of src/app.py.                                      *)

MsgExtractFailed == <<"S","Q","L","u63D0","u53D6","u5931","u8D25">>
MsgQueryFailedPrefix == <<"u67E5","u8BE2","u5931","u8D25",":"," ">>
MsgQueryFailedMark == <<"u67E5","u8BE2","u5931","u8D25",":">>
MsgProcessingErrorPrefix == <<"u67E5","u8BE2","u5904","u7406","u8FC7","u7A0B","u4E2D",
                              "u53D1","u751F","u9519","u8BEF",":"," ">>
MsgHistoryErrorPrefix == <<"u5386","u53F2","u8BB0","u5F55","u4FDD","u5B58","u5931","u8D25",":"," ">>
MsgNoRows == <<"u67E5","u8BE2","u6267","u884C","u6210","u529F","uFF0C","u4F46","u6CA1","u6709",
               "u8FD4","u56DE","u6570","u636E","u3002">>
MsgQueryFailedDefault == <<"S","Q","L","u67E5","u8BE2","u6267","u884C","u5931","u8D25","uFF0C",
                           "u4F46","u672A","u8FD4","u56DE","u5177","u4F53","u9519","u8BEF",
                           "u4FE1","u606F">>
TokCompliantPass == <<"u5408","u89C4","u901A","u8FC7">>
TokCompliantEn == <<"c","o","m","p","l","i","a","n","t">>
TokCompliance == <<"u5408","u89C4">>
TokNotCompliant == <<"u4E0D","u5408","u89C4">>
TokViolation == <<"u8FDD","u89C4">>
KeyReport == <<"r","e","p","o","r","t">>

----------------------------------------------------------------------------
(* What the collaborators, the store and the user can give.                *)

\* user requests: two blank ones and a question
Prompts == {<<>>, <<" ">>, <<"q">>}

\* SQL typed by the user in the editor: two blank ones and a statement
ManualSqls == {<<>>, <<" ">>, <<"S","E","L","E","C","T"," ","3">>}

\* str(generation_result): a JSON object with sqlquery, and a comment only
GenerationResponses ==
    { <<"{","\"","s","q","l","q","u","e","r","y","\"",":","\"",
        "S","E","L","E","C","T"," ","1","\"","}">>,
      <<"-","-"," ","x">> }

\* str(review_result): a JSON object with reviewed_sqlquery, a bare statement, nothing
ReviewResponses ==
    { <<"{","\"","r","e","v","i","e","w","e","d","_","s","q","l","q","u","e","r","y","\"",":","\"",
        "S","E","L","E","C","T"," ","1","\"","}">>,
      <<"S","E","L","E","C","T"," ","2">>,
      <<>> }

\* str(compliance_result): two plain reports, a JSON object whose report is a str,
\* a JSON object whose report is an object (a structured report)
ComplianceResponses ==
    { TokCompliantPass,
      TokNotCompliant,
      <<"{","\"","r","e","p","o","r","t","\"",":","\"","c","o","m","p","l","i","a","n","t","\"","}">>,
      <<"{","\"","r","e","p","o","r","t","\"",":","{","\"","r","i","s","k","\"",":","1","}","}">> }

\* str(e) of an exception a collaborator call raises
CollaboratorErrors == { <<"b","o","o","m">> }

\* what the store does with a query: rows, no rows, or a driver error with its text
StoreOutcomes ==
    { [kind |-> "rows", text |-> <<"r","o","w">>],
      [kind |-> "empty", text |-> <<>>],
      [kind |-> "error", text |-> <<"n","o"," ","s","u","c","h"," ","t","a","b","l","e">>] }

\* how a call of add_to_history ends: it returns, line 159 raises, or line 162 raises
AddOutcomes == {"ok", "raise_before_append", "raise_after_append"}

\* how the direct append of the retry ends
AppendOutcomes == {"ok", "raise"}

\* str(history_error)
AddErrorText == <<"f","a","i","l">>

\* str(e) of the TypeError of compliance_report[:200] for a report that is no str
SliceErrorText == <<"T","y","p","e","E","r","r","o","r">>

----------------------------------------------------------------------------
(* Records and the history.                                                *)

\* a pandas DataFrame, known by the text of its rows (no text: df.empty)
PyDataFrame(rows) == [t |-> "DataFrame", v |-> rows, items |-> <<>>]

\* x is None
IsNone(x) == x.t = "NoneType"

\* create_analysis_record: the dict it returns ("status" and "error_message" are keys
\* added later; a key the dict lacks reads as "" resp. None)
create_analysis_record(id, user_prompt, generated_sql, reviewed_sql, compliance_report, manual_intervention, manual_sql) ==
    [ id |-> id,
      user_prompt |-> user_prompt,
      generated_sql |-> generated_sql,
      reviewed_sql |-> reviewed_sql,
      compliance_report |-> compliance_report,
      query_result |-> PyNone,
      query_dataframe |-> PyNone,
      cost |-> 0,
      visualizations |-> <<>>,
      analyses |-> <<>>,
      manual_intervention |-> manual_intervention,
      manual_sql |-> manual_sql,
      status |-> "",
      error_message |-> PyNone ]

\* the session state the pipeline functions write, as one value (retried: how the direct
\* append after a failed add_to_history ended, "no" when there was none)
Session == [hist |-> analysis_history, cost |-> llm_cost, recs |-> records,
            fails |-> add_failures, retried |-> "no"]

\* add_to_history adding a flat 1 to llm_cost instead of the cost of the record
add_to_historyFlatCost(S, id, o) ==
    [S EXCEPT !.hist = IF o = "raise_before_append" THEN @ ELSE Append(@, id),
              !.cost = IF o = "ok" THEN @ + 1 ELSE @,
              !.fails = IF o = "ok" THEN @ ELSE @ + 1]

\* add_to_history(record), ending as o says
add_to_history(S, id, o) ==
    [S EXCEPT !.hist = IF o = "raise_before_append" THEN @ ELSE Append(@, id),
              !.cost = IF o = "ok" THEN @ + S.recs[id].cost ELSE @,
              !.fails = IF o = "ok" THEN @ ELSE @ + 1]

Raised(o) == o # "ok"

\* the except branch of execute_new_analysis; escaped: the exception of add_to_history leaves it
ExceptNewAnalysis(S, id, o) ==
    [S |-> add_to_history([S EXCEPT !.recs[id].status = "error"], id, o),
     escaped |-> Raised(o)]

\* the outer except branch of continue_with_generated_sql for exception text e; an
\* exception of its add_to_history reaches the except branch of execute_new_analysis
ExceptContinue(S, id, e, o2, o3) ==
    LET S1 == [S EXCEPT !.recs[id].status = "error",
                        !.recs[id].error_message = PyStr(MsgProcessingErrorPrefix \o e)]
        S2 == add_to_history(S1, id, o2)
    IN  IF Raised(o2) THEN ExceptNewAnalysis(S2, id, o3)
        ELSE [S |-> S2, escaped |-> FALSE]

\* AddWithRetry without the direct append of the retry
AddWithRetryNoAppend(S, id, o1, o2) ==
    LET S1 == add_to_history(S, id, o1)
        S2 == [S1 EXCEPT !.recs[id].status = "error",
                         !.recs[id].error_message = PyStr(MsgHistoryErrorPrefix \o AddErrorText)]
    IN  IF ~Raised(o1) THEN S1
        ELSE IF o2 = "ok" THEN [S2 EXCEPT !.retried = "ok"]
        ELSE [S2 EXCEPT !.fails = @ + 1, !.retried = "failed"]

\* "add to history" at the end of both pipeline functions: add_to_history, and on its
\* exception the error status and the direct append, whose own exception is swallowed
AddWithRetry(S, id, o1, o2) ==
    LET S1 == add_to_history(S, id, o1)
        S2 == [S1 EXCEPT !.recs[id].status = "error",
                         !.recs[id].error_message = PyStr(MsgHistoryErrorPrefix \o AddErrorText)]
    IN  IF ~Raised(o1) THEN S1
        ELSE IF o2 = "ok" THEN [S2 EXCEPT !.hist = Append(@, id), !.retried = "ok"]
        ELSE [S2 EXCEPT !.fails = @ + 1, !.retried = "failed"]

\* is_compliant without the test for the negative token and the violation token
is_compliantNoNegative(compliance_report) ==
    \/ Contains(Str(compliance_report), TokCompliantPass)
    \/ Contains(Lower(Str(compliance_report)), TokCompliantEn)
    \/ Contains(Str(compliance_report), TokCompliance)

\* the compliance decision of both pipeline functions
is_compliant(compliance_report) ==
    \/ Contains(Str(compliance_report), TokCompliantPass)
    \/ Contains(Lower(Str(compliance_report)), TokCompliantEn)
    \/ /\ Contains(Str(compliance_report), TokCompliance)
       /\ ~Contains(Str(compliance_report), TokNotCompliant)
       /\ ~Contains(Str(compliance_report), TokViolation)

\* compliance_report: the "report" of the parsed object, else the text itself
ReportOf(compliance_result, compliance_data) ==
    IF compliance_data.ok /\ compliance_data.val.t = "dict"
       /\ DictHas(compliance_data.val, KeyReport)
    THEN DictGet(compliance_data.val, KeyReport)
    ELSE PyStr(compliance_result)
ParseComplianceReport(compliance_result) ==
    ReportOf(compliance_result, json_loads(compliance_result))

\* run_query_to_dataframe returning None for a result without rows
run_query_to_dataframeEmptyIsNone(query, outcome) ==
    CASE outcome.kind = "rows" -> <<PyDataFrame(outcome.text), outcome.text>>
      [] outcome.kind = "empty" -> <<PyNone, MsgNoRows>>
      [] OTHER -> <<PyNone, MsgQueryFailedPrefix \o outcome.text>>
\* run_query_to_dataframe returning the text of the exception as it is
run_query_to_dataframeBareError(query, outcome) ==
    CASE outcome.kind = "rows" -> <<PyDataFrame(outcome.text), outcome.text>>
      [] outcome.kind = "empty" -> <<PyDataFrame(<<>>), MsgNoRows>>
      [] OTHER -> <<PyNone, outcome.text>>
\* run_query_to_dataframe(query) for what the store does: <<df, text_result>>
run_query_to_dataframe(query, outcome) ==
    CASE outcome.kind = "rows" -> <<PyDataFrame(outcome.text), outcome.text>>
      [] outcome.kind = "empty" -> <<PyDataFrame(<<>>), MsgNoRows>>
      [] OTHER -> <<PyNone, MsgQueryFailedPrefix \o outcome.text>>

\* StoreQueryResult with the test "df is not None" inverted
StoreQueryResultInverted(rec, df, text_result) ==
    [rec EXCEPT !.query_result = PyStr(text_result), !.query_dataframe = df,
                !.status = IF IsNone(df) THEN "completed" ELSE "query_failed"]

\* StoreQueryResult without the assignment of record["query_result"]
StoreQueryResultNoText(rec, df, text_result) ==
    [rec EXCEPT !.query_dataframe = df,
                !.status = IF IsNone(df) THEN "query_failed" ELSE "completed"]

\* what both pipeline functions store on the record after run_query_to_dataframe returned
StoreQueryResult(rec, df, text_result) ==
    LET r == [rec EXCEPT !.query_result = PyStr(text_result), !.query_dataframe = df]
    IN  IF ~IsNone(df) THEN [r EXCEPT !.status = "completed"]
        ELSE [r EXCEPT !.status = "query_failed",
                       !.error_message =
                           IF text_result # <<>> /\ Contains(text_result, MsgQueryFailedMark)
                           THEN PyStr(text_result)
                           ELSE IF text_result # <<>> THEN PyStr(text_result)
                           ELSE PyStr(MsgQueryFailedDefault)]

----------------------------------------------------------------------------
(* The handlers.  A handler runs from the user's action to the next call   *)
(* of a collaborator (or of the store), and from the answer of that call   *)
(* to the next one; pc names the call it waits for.                        *)

NoFrame == [user_request |-> <<>>, manual_sql |-> <<>>, reviewed_sql |-> <<>>, rec |-> 0]

\* nothing observed yet
NoRun == [kind |-> "none", rec |-> 0, hlen |-> 0, calls |-> <<>>, escaped |-> FALSE,
          raised_at |-> "", raised_text |-> <<>>, extract_empty |-> "",
          compliant |-> "unknown", store |-> "none", pending |-> FALSE,
          add_failed |-> FALSE, retried |-> "no", paused |-> FALSE, rerun_of |-> 0]

\* a call of a collaborator or of the store, with the SQL (or the request) given to it
Call(stage, arg) == [stage |-> stage, arg |-> arg]

\* the records still referenced once no handler runs: those in the history
Alive(recs, hist) ==
    [id \in {i \in DOMAIN recs : \E k \in 1..Len(hist) : hist[k] = i} |-> recs[id]]

\* recs with the new record rec
WithRecord(recs, rec) ==
    [id \in DOMAIN recs \cup {rec.id} |-> IF id = rec.id THEN rec ELSE recs[id]]

\* no function is called by itself
NoCall == [fn |-> "none"]

\* the session after init_session_state
InitSession ==
    /\ analysis_history = <<>>
    /\ llm_cost = 0
    /\ current_cell = 0
    /\ enable_manual_intervention = FALSE
    /\ manual_intervention_mode = FALSE
    /\ generated_sql_info = PyNone
    /\ records = <<>>
    /\ next_id = 0
    /\ add_failures = 0
    /\ pc = "idle"
    /\ frame = NoFrame
    /\ run = NoRun

Init == InitSession /\ call = NoCall

\* the session is not touched by the call of a function by itself
SessionUnchanged ==
    UNCHANGED <<analysis_history, llm_cost, current_cell, enable_manual_intervention,
                manual_intervention_mode, generated_sql_info, records, next_id,
                add_failures, pc, frame, run>>

\* a call of function fn with argument arg that has not returned yet
Calling(fn, arg) == [fn |-> fn, arg |-> arg, done |-> FALSE]

\* the session state S written back
Commit(S) ==
    /\ analysis_history' = S.hist
    /\ llm_cost' = S.cost
    /\ records' = S.recs
    /\ add_failures' = S.fails
    /\ S.fails <= MaxAddFailures

\* the handler is over: by return, or by an exception that leaves it (escaped)
Return(S, obs) ==
    /\ Commit(S)
    /\ pc' = "idle"
    /\ frame' = NoFrame
    /\ run' = [obs EXCEPT !.add_failed = S.fails > add_failures, !.retried = S.retried]

\* what the pipeline functions leave alone
UiUnchanged == UNCHANGED <<enable_manual_intervention, manual_intervention_mode,
                           generated_sql_info, call>>

\* the toggle "enable manual intervention" of main()
ToggleManualIntervention ==
    /\ pc = "idle"
    /\ enable_manual_intervention' = ~enable_manual_intervention
    /\ run' = NoRun
    /\ records' = Alive(records, analysis_history)
    /\ UNCHANGED <<analysis_history, llm_cost, current_cell, manual_intervention_mode,
                   generated_sql_info, next_id, add_failures, pc, frame, call>>

\* NewAnalysis without the assignment record["status"] = "generating"
NewAnalysisNoStatus(user_prompt, capacity, rerun_of) ==
    /\ pc = "idle"
    /\ IF Strip(user_prompt) = <<>>
       THEN /\ run' = [NoRun EXCEPT !.kind = "blank", !.hlen = Len(analysis_history)]
            /\ records' = Alive(records, analysis_history)
            /\ UNCHANGED <<analysis_history, llm_cost, current_cell, next_id, add_failures,
                           pc, frame>>
       ELSE /\ next_id < capacity
            /\ LET id == next_id + 1
                   record == create_analysis_record(id, user_prompt, PyNone, PyNone, PyNone,
                                                    FALSE, PyNone)
               IN  /\ records' = WithRecord(Alive(records, analysis_history), record)
                   /\ next_id' = id
                   /\ current_cell' = id
                   /\ frame' = [NoFrame EXCEPT !.user_request = user_prompt, !.rec = id]
                   /\ run' = [NoRun EXCEPT !.kind = "auto", !.rec = id,
                                           !.hlen = Len(analysis_history),
                                           !.calls = <<Call("generation", user_prompt)>>,
                                           !.paused = enable_manual_intervention,
                                           !.rerun_of = rerun_of]
            /\ pc' = "generation"
            /\ UNCHANGED <<analysis_history, llm_cost, add_failures>>
    /\ UiUnchanged

\* NewAnalysis testing the prompt without strip(): a prompt of spaces starts a run
NewAnalysisNoStrip(user_prompt, capacity, rerun_of) ==
    /\ pc = "idle"
    /\ IF user_prompt = <<>>
       THEN /\ run' = [NoRun EXCEPT !.kind = "blank", !.hlen = Len(analysis_history)]
            /\ records' = Alive(records, analysis_history)
            /\ UNCHANGED <<analysis_history, llm_cost, current_cell, next_id, add_failures,
                           pc, frame>>
       ELSE /\ next_id < capacity
            /\ LET id == next_id + 1
                   record == [create_analysis_record(id, user_prompt, PyNone, PyNone, PyNone,
                                                     FALSE, PyNone)
                              EXCEPT !.status = "generating"]
               IN  /\ records' = WithRecord(Alive(records, analysis_history), record)
                   /\ next_id' = id
                   /\ current_cell' = id
                   /\ frame' = [NoFrame EXCEPT !.user_request = user_prompt, !.rec = id]
                   /\ run' = [NoRun EXCEPT !.kind = "auto", !.rec = id,
                                           !.hlen = Len(analysis_history),
                                           !.calls = <<Call("generation", user_prompt)>>,
                                           !.paused = enable_manual_intervention,
                                           !.rerun_of = rerun_of]
            /\ pc' = "generation"
            /\ UNCHANGED <<analysis_history, llm_cost, add_failures>>
    /\ UiUnchanged

\* execute_new_analysis(user_prompt) up to the call of the generation collaborator, while
\* fewer than capacity records were made; rerun_of is the id of the record whose rerun
\* button called it (0: the execute button did)
NewAnalysis(user_prompt, capacity, rerun_of) ==
    /\ pc = "idle"
    /\ IF Strip(user_prompt) = <<>>
       THEN /\ run' = [NoRun EXCEPT !.kind = "blank", !.hlen = Len(analysis_history)]
            /\ records' = Alive(records, analysis_history)
            /\ UNCHANGED <<analysis_history, llm_cost, current_cell, next_id, add_failures,
                           pc, frame>>
       ELSE /\ next_id < capacity
            /\ LET id == next_id + 1
                   record == [create_analysis_record(id, user_prompt, PyNone, PyNone, PyNone,
                                                     FALSE, PyNone)
                              EXCEPT !.status = "generating"]
               IN  /\ records' = WithRecord(Alive(records, analysis_history), record)
                   /\ next_id' = id
                   /\ current_cell' = id
                   /\ frame' = [NoFrame EXCEPT !.user_request = user_prompt, !.rec = id]
                   /\ run' = [NoRun EXCEPT !.kind = "auto", !.rec = id,
                                           !.hlen = Len(analysis_history),
                                           !.calls = <<Call("generation", user_prompt)>>,
                                           !.paused = enable_manual_intervention,
                                           !.rerun_of = rerun_of]
            /\ pc' = "generation"
            /\ UNCHANGED <<analysis_history, llm_cost, add_failures>>
    /\ UiUnchanged

\* the execute button (and the quick-analysis and example buttons) of main()
ExecuteNewAnalysis(user_prompt) == NewAnalysis(user_prompt, MaxRecords, 0)

\* RerunAnalysis running the pipeline on the record of the cell instead of a new one
RerunAnalysisInPlace(k) ==
    /\ k \in 1..Len(analysis_history)
    /\ pc = "idle"
    /\ next_id < MaxRecords + 1
    /\ LET id == analysis_history[k]
       IN  /\ records' = [Alive(records, analysis_history) EXCEPT ![id].status = "generating"]
           /\ current_cell' = id
           /\ frame' = [NoFrame EXCEPT !.user_request = records[id].user_prompt, !.rec = id]
           /\ run' = [NoRun EXCEPT !.kind = "auto", !.rec = id,
                                   !.hlen = Len(analysis_history),
                                   !.calls = <<Call("generation", records[id].user_prompt)>>,
                                   !.paused = enable_manual_intervention,
                                   !.rerun_of = id]
    /\ next_id' = next_id + 1
    /\ pc' = "generation"
    /\ UNCHANGED <<analysis_history, llm_cost, add_failures>>
    /\ UiUnchanged

\* the rerun button of the cell of the k-th record of the history:
\* rerun_analysis(record["user_prompt"]); a rerun may make one record more
RerunAnalysis(k) ==
    /\ k \in 1..Len(analysis_history)
    /\ NewAnalysis(records[analysis_history[k]].user_prompt, MaxRecords + 1, analysis_history[k])

\* the generation collaborator raises
GenerationRaises(e) ==
    /\ pc = "generation"
    /\ \E o \in AddOutcomes :
          LET x == ExceptNewAnalysis(Session, frame.rec, o)
          IN  Return(x.S, [run EXCEPT !.raised_at = "generation", !.raised_text = e,
                                      !.escaped = x.escaped])
    /\ UNCHANGED <<current_cell, next_id>>
    /\ UiUnchanged

\* GenerationReturns calling the generation collaborator a second time when the first
\* answer holds no SQL
GenerationReturnsRetry(generation_result) ==
    /\ pc = "generation"
    /\ LET raw_sql == extract_sql_from_response(generation_result)
           id == frame.rec
           S0 == [Session EXCEPT !.recs[id].generated_sql = PyStr(raw_sql)]
       IN  IF raw_sql # <<>>
           THEN /\ Commit(S0)
                /\ pc' = "review"
                /\ run' = [run EXCEPT !.calls = Append(@, Call("review", raw_sql))]
                /\ UNCHANGED frame
           ELSE IF Len(run.calls) < 2
           THEN /\ Commit(S0)
                /\ pc' = "generation"
                /\ run' = [run EXCEPT !.calls = Append(@, Call("generation", frame.user_request))]
                /\ UNCHANGED frame
           ELSE Return(add_to_history([S0 EXCEPT !.recs[id].status = "error"], id, "ok"),
                       [run EXCEPT !.extract_empty = "generation"])
    /\ UNCHANGED <<current_cell, next_id>>
    /\ UiUnchanged

\* the generation collaborator returns: the rest of execute_new_analysis, and
\* continue_with_generated_sql up to the call of the review collaborator
GenerationReturns(generation_result) ==
    /\ pc = "generation"
    /\ LET raw_sql == extract_sql_from_response(generation_result)
           id == frame.rec
           S0 == [Session EXCEPT !.recs[id].generated_sql = PyStr(raw_sql)]
       IN  IF raw_sql # <<>>
           THEN IF Strip(raw_sql) # <<>>
                THEN /\ Commit(S0)
                     /\ pc' = "review"
                     /\ run' = [run EXCEPT !.calls = Append(@, Call("review", raw_sql))]
                     /\ UNCHANGED frame
                ELSE \E o1 \in AddOutcomes, o2 \in AppendOutcomes :
                        Return(AddWithRetry(S0, id, o1, o2), run)
           ELSE \E o1, o2 \in AddOutcomes :
                   LET S1 == add_to_history([S0 EXCEPT !.recs[id].status = "error"], id, o1)
                       x == IF Raised(o1) THEN ExceptNewAnalysis(S1, id, o2)
                            ELSE [S |-> S1, escaped |-> FALSE]
                   IN  Return(x.S, [run EXCEPT !.extract_empty = "generation",
                                               !.escaped = x.escaped])
    /\ UNCHANGED <<current_cell, next_id>>
    /\ UiUnchanged

\* the review or the compliance collaborator raises in continue_with_generated_sql
StageRaises(stage, e) ==
    /\ pc = stage
    /\ stage \in {"review", "compliance"}
    /\ \E o2, o3 \in AddOutcomes :
          LET x == ExceptContinue(Session, frame.rec, e, o2, o3)
          IN  Return(x.S, [run EXCEPT !.raised_at = stage, !.raised_text = e,
                                      !.escaped = x.escaped])
    /\ UNCHANGED <<current_cell, next_id>>
    /\ UiUnchanged

\* ReviewReturns without the return after add_to_history on an empty reviewed SQL: the
\* function goes on to the compliance call
ReviewReturnsNoReturn(review_result) ==
    /\ pc = "review"
    /\ LET reviewed_sql == extract_sql_from_response(review_result)
           id == frame.rec
           S0 == [Session EXCEPT !.recs[id].reviewed_sql = PyStr(reviewed_sql)]
           S1 == [S0 EXCEPT !.recs[id].status = "error",
                            !.recs[id].error_message = PyStr(MsgExtractFailed)]
       IN  /\ Commit(IF Strip(reviewed_sql) = <<>> THEN add_to_history(S1, id, "ok") ELSE S0)
           /\ frame' = [frame EXCEPT !.reviewed_sql = reviewed_sql]
           /\ run' = [run EXCEPT !.calls = Append(@, Call("compliance", reviewed_sql)),
                                 !.extract_empty =
                                     IF Strip(reviewed_sql) = <<>> THEN "review" ELSE @]
    /\ pc' = "compliance"
    /\ UNCHANGED <<current_cell, next_id>>
    /\ UiUnchanged

\* the review collaborator returns: continue_with_generated_sql up to the call of the
\* compliance collaborator
ReviewReturns(review_result) ==
    /\ pc = "review"
    /\ LET reviewed_sql == extract_sql_from_response(review_result)
           id == frame.rec
           S0 == [Session EXCEPT !.recs[id].reviewed_sql = PyStr(reviewed_sql)]
       IN  IF reviewed_sql = <<>> \/ Strip(reviewed_sql) = <<>>
           THEN \E o1, o2, o3 \in AddOutcomes :
                   LET S1 == add_to_history(
                                 [S0 EXCEPT !.recs[id].status = "error",
                                            !.recs[id].error_message = PyStr(MsgExtractFailed)],
                                 id, o1)
                       x == IF Raised(o1) THEN ExceptContinue(S1, id, AddErrorText, o2, o3)
                            ELSE [S |-> S1, escaped |-> FALSE]
                   IN  Return(x.S, [run EXCEPT !.extract_empty = "review",
                                               !.escaped = x.escaped])
           ELSE /\ Commit(S0)
                /\ pc' = "compliance"
                /\ frame' = [frame EXCEPT !.reviewed_sql = reviewed_sql]
                /\ run' = [run EXCEPT !.calls = Append(@, Call("compliance", reviewed_sql))]
    /\ UNCHANGED <<current_cell, next_id>>
    /\ UiUnchanged

\* ComplianceReturns without the assignment record["status"] = "compliance_failed"
ComplianceReturnsNoVerdict(compliance_result) ==
    /\ pc = "compliance"
    /\ LET compliance_report == ParseComplianceReport(compliance_result)
           id == frame.rec
           S0 == [Session EXCEPT !.recs[id].compliance_report = compliance_report,
                                 !.recs[id].status = "pending_execution"]
           obs == [run EXCEPT !.pending = TRUE,
                              !.compliant = IF is_compliant(compliance_report)
                                            THEN "yes" ELSE "no"]
       IN  IF compliance_report.t # "str"
           THEN \* compliance_report[:200] of the debug line raises
                \E o2, o3 \in AddOutcomes :
                   LET x == ExceptContinue(S0, id, SliceErrorText, o2, o3)
                   IN  Return(x.S, [obs EXCEPT !.escaped = x.escaped])
           ELSE IF is_compliant(compliance_report)
           THEN /\ Commit(S0)
                /\ pc' = "execution"
                /\ run' = [obs EXCEPT !.calls = Append(@, Call("execution", frame.reviewed_sql))]
                /\ UNCHANGED frame
           ELSE \E o1 \in AddOutcomes, o2 \in AppendOutcomes :
                   Return(AddWithRetry(S0, id, o1, o2), obs)
    /\ UNCHANGED <<current_cell, next_id>>
    /\ UiUnchanged

\* the compliance collaborator returns: continue_with_generated_sql up to the call of
\* the store by run_query_to_dataframe, or to its end when the query is not run
ComplianceReturns(compliance_result) ==
    /\ pc = "compliance"
    /\ LET compliance_report == ParseComplianceReport(compliance_result)
           id == frame.rec
           S0 == [Session EXCEPT !.recs[id].compliance_report = compliance_report,
                                 !.recs[id].status = "pending_execution"]
           obs == [run EXCEPT !.pending = TRUE,
                              !.compliant = IF is_compliant(compliance_report)
                                            THEN "yes" ELSE "no"]
       IN  IF compliance_report.t # "str"
           THEN \* compliance_report[:200] of the debug line raises
                \E o2, o3 \in AddOutcomes :
                   LET x == ExceptContinue(S0, id, SliceErrorText, o2, o3)
                   IN  Return(x.S, [obs EXCEPT !.escaped = x.escaped])
           ELSE IF is_compliant(compliance_report)
           THEN /\ Commit(S0)
                /\ pc' = "execution"
                /\ run' = [obs EXCEPT !.calls = Append(@, Call("execution", frame.reviewed_sql))]
                /\ UNCHANGED frame
           ELSE \E o1 \in AddOutcomes, o2 \in AppendOutcomes :
                   Return(AddWithRetry([S0 EXCEPT !.recs[id].status = "compliance_failed"],
                                       id, o1, o2), obs)
    /\ UNCHANGED <<current_cell, next_id>>
    /\ UiUnchanged

\* the store answers run_query_to_dataframe: the rest of continue_with_generated_sql
QueryReturns(outcome) ==
    /\ pc = "execution"
    /\ LET id == frame.rec
           res == run_query_to_dataframe(frame.reviewed_sql, outcome)
           S0 == [Session EXCEPT !.recs[id] = StoreQueryResult(@, res[1], res[2])]
       IN  \E o1 \in AddOutcomes, o2 \in AppendOutcomes :
              Return(AddWithRetry(S0, id, o1, o2), [run EXCEPT !.store = outcome.kind])
    /\ UNCHANGED <<current_cell, next_id>>
    /\ UiUnchanged

\* process_manual_sql(manual_sql, user_request) up to the call of the review collaborator
ProcessManualSql(manual_sql, user_request) ==
    /\ pc = "idle"
    /\ IF manual_sql = <<>> \/ Strip(manual_sql) = <<>>
       THEN /\ run' = [NoRun EXCEPT !.kind = "blank", !.hlen = Len(analysis_history)]
            /\ UNCHANGED <<pc, frame>>
       ELSE /\ next_id < MaxRecords
            /\ pc' = "manual_review"
            /\ frame' = [NoFrame EXCEPT !.user_request = user_request, !.manual_sql = manual_sql]
            /\ run' = [NoRun EXCEPT !.kind = "manual", !.hlen = Len(analysis_history),
                                    !.calls = <<Call("review", manual_sql)>>]
    /\ records' = Alive(records, analysis_history)
    /\ UNCHANGED <<analysis_history, llm_cost, current_cell, next_id, add_failures>>
    /\ UiUnchanged

\* a collaborator raises in process_manual_sql, which has no except branch for it
ManualStageRaises(stage, e) ==
    /\ pc = stage
    /\ stage \in {"manual_review", "manual_compliance"}
    /\ Return(Session, [run EXCEPT !.raised_at = stage, !.raised_text = e, !.escaped = TRUE])
    /\ UNCHANGED <<current_cell, next_id>>
    /\ UiUnchanged

\* ManualReviewReturns giving the compliance collaborator the SQL the user typed
ManualReviewReturnsChecksTyped(review_result) ==
    /\ pc = "manual_review"
    /\ LET reviewed_sql == extract_sql_from_response(review_result)
       IN  /\ frame' = [frame EXCEPT !.reviewed_sql = reviewed_sql]
           /\ run' = [run EXCEPT !.calls = Append(@, Call("compliance", frame.manual_sql)),
                                 !.extract_empty = IF reviewed_sql = <<>> THEN "review" ELSE ""]
    /\ pc' = "manual_compliance"
    /\ UNCHANGED <<analysis_history, llm_cost, current_cell, records, next_id, add_failures>>
    /\ UiUnchanged

\* the review collaborator returns: process_manual_sql up to the call of the
\* compliance collaborator
ManualReviewReturns(review_result) ==
    /\ pc = "manual_review"
    /\ LET reviewed_sql == extract_sql_from_response(review_result)
       IN  /\ frame' = [frame EXCEPT !.reviewed_sql = reviewed_sql]
           /\ run' = [run EXCEPT !.calls = Append(@, Call("compliance", reviewed_sql)),
                                 !.extract_empty = IF reviewed_sql = <<>> THEN "review" ELSE ""]
    /\ pc' = "manual_compliance"
    /\ UNCHANGED <<analysis_history, llm_cost, current_cell, records, next_id, add_failures>>
    /\ UiUnchanged

\* ManualComplianceReturns making the record without generated_sql
ManualComplianceReturnsNoGenerated(compliance_result) ==
    /\ pc = "manual_compliance"
    /\ LET compliance_report == ParseComplianceReport(compliance_result)
           id == next_id + 1
           record == [create_analysis_record(id, frame.user_request, PyNone,
                                             PyStr(frame.reviewed_sql), compliance_report,
                                             TRUE, PyStr(frame.manual_sql))
                      EXCEPT !.status = "pending_execution"]
           S0 == [Session EXCEPT !.recs = WithRecord(@, record)]
           obs == [run EXCEPT !.rec = id, !.pending = TRUE,
                              !.compliant = IF is_compliant(compliance_report)
                                            THEN "yes" ELSE "no"]
       IN  /\ current_cell' = id
           /\ next_id' = id
           /\ IF is_compliant(compliance_report)
              THEN /\ Commit(S0)
                   /\ pc' = "manual_execution"
                   /\ frame' = [frame EXCEPT !.rec = id]
                   /\ run' = [obs EXCEPT !.calls = Append(@, Call("execution", frame.reviewed_sql))]
              ELSE \E o1 \in AddOutcomes, o2 \in AppendOutcomes :
                      Return(AddWithRetry([S0 EXCEPT !.recs[id].status = "compliance_failed"],
                                          id, o1, o2), obs)
    /\ UiUnchanged

\* the compliance collaborator returns: process_manual_sql up to the call of the store
\* by run_query_to_dataframe, or to its end when the query is not run
ManualComplianceReturns(compliance_result) ==
    /\ pc = "manual_compliance"
    /\ LET compliance_report == ParseComplianceReport(compliance_result)
           id == next_id + 1
           record == [create_analysis_record(id, frame.user_request, PyStr(frame.manual_sql),
                                             PyStr(frame.reviewed_sql), compliance_report,
                                             TRUE, PyStr(frame.manual_sql))
                      EXCEPT !.status = "pending_execution"]
           S0 == [Session EXCEPT !.recs = WithRecord(@, record)]
           obs == [run EXCEPT !.rec = id, !.pending = TRUE,
                              !.compliant = IF is_compliant(compliance_report)
                                            THEN "yes" ELSE "no"]
       IN  /\ current_cell' = id
           /\ next_id' = id
           /\ IF is_compliant(compliance_report)
              THEN /\ Commit(S0)
                   /\ pc' = "manual_execution"
                   /\ frame' = [frame EXCEPT !.rec = id]
                   /\ run' = [obs EXCEPT !.calls = Append(@, Call("execution", frame.reviewed_sql))]
              ELSE \E o1 \in AddOutcomes, o2 \in AppendOutcomes :
                      Return(AddWithRetry([S0 EXCEPT !.recs[id].status = "compliance_failed"],
                                          id, o1, o2), obs)
    /\ UiUnchanged

\* the store answers run_query_to_dataframe: the rest of process_manual_sql
ManualQueryReturns(outcome) ==
    /\ pc = "manual_execution"
    /\ LET id == frame.rec
           res == run_query_to_dataframe(frame.reviewed_sql, outcome)
           S0 == [Session EXCEPT !.recs[id] = StoreQueryResult(@, res[1], res[2])]
       IN  \E o1 \in AddOutcomes, o2 \in AppendOutcomes :
              Return(AddWithRetry(S0, id, o1, o2), [run EXCEPT !.store = outcome.kind])
    /\ UNCHANGED <<current_cell, next_id>>
    /\ UiUnchanged

\* DeleteRecord removing every entry of the history
DeleteRecordAll(cell_id) ==
    /\ pc = "idle"
    /\ \E i \in 1..Len(analysis_history) : analysis_history[i] = cell_id
    /\ analysis_history' = <<>>
    /\ records' = Alive(records, analysis_history')
    /\ run' = NoRun
    /\ UNCHANGED <<llm_cost, current_cell, next_id, add_failures, pc, frame>>
    /\ UiUnchanged

\* the delete button of the cell of the record with id cell_id
DeleteRecord(cell_id) ==
    /\ pc = "idle"
    /\ \E i \in 1..Len(analysis_history) : analysis_history[i] = cell_id
    /\ analysis_history' = SelectSeq(analysis_history, LAMBDA r : records[r].id # cell_id)
    /\ records' = Alive(records, analysis_history')
    /\ run' = NoRun
    /\ UNCHANGED <<llm_cost, current_cell, next_id, add_failures, pc, frame>>
    /\ UiUnchanged

\* the "clear history" button of the sidebar
ClearHistory ==
    /\ pc = "idle"
    /\ analysis_history' = <<>>
    /\ llm_cost' = 0
    /\ current_cell' = 0
    /\ manual_intervention_mode' = FALSE
    /\ generated_sql_info' = PyNone
    /\ records' = <<>>
    /\ run' = NoRun
    /\ UNCHANGED <<enable_manual_intervention, next_id, add_failures, pc, frame, call>>

Next ==
    \/ ToggleManualIntervention
    \/ \E user_prompt \in Prompts : ExecuteNewAnalysis(user_prompt)
    \/ \E e \in CollaboratorErrors : GenerationRaises(e)
    \/ \E r \in GenerationResponses : GenerationReturns(r)
    \/ \E e \in CollaboratorErrors : StageRaises("review", e)
    \/ \E e \in CollaboratorErrors : StageRaises("compliance", e)
    \/ \E r \in ReviewResponses : ReviewReturns(r)
    \/ \E r \in ComplianceResponses : ComplianceReturns(r)
    \/ \E outcome \in StoreOutcomes : QueryReturns(outcome)
    \/ \E manual_sql \in ManualSqls, user_request \in {p \in Prompts : Strip(p) # <<>>} :
          ProcessManualSql(manual_sql, user_request)
    \/ \E e \in CollaboratorErrors : ManualStageRaises("manual_review", e)
    \/ \E e \in CollaboratorErrors : ManualStageRaises("manual_compliance", e)
    \/ \E r \in ReviewResponses : ManualReviewReturns(r)
    \/ \E r \in ComplianceResponses : ManualComplianceReturns(r)
    \/ \E outcome \in StoreOutcomes : ManualQueryReturns(outcome)
    \/ \E cell_id \in 1..MaxRecords : DeleteRecord(cell_id)
    \/ ClearHistory

Spec == Init /\ [][Next]_vars

\* the answers the session with the history buttons draws from: one of each kind that
\* gives the record another final status
HistoryReviewResponses == {r \in ReviewResponses : Strip(r) # <<>> /\ ~StartsWith(r, <<"{">>)}
HistoryComplianceResponses == {TokCompliantPass, TokNotCompliant}
HistoryStoreOutcomes == {o \in StoreOutcomes : o.kind # "empty"}

\* the user requests of that session: a second question, so that records differ in it
HistoryPrompts == Prompts \cup {<<"p">>}

\* the session with the buttons of the history cells: rerun and delete of every record
NextHistory ==
    \/ \E user_prompt \in HistoryPrompts : ExecuteNewAnalysis(user_prompt)
    \/ \E k \in 1..(MaxRecords + 1) : RerunAnalysis(k)
    \/ \E e \in CollaboratorErrors : GenerationRaises(e)
    \/ \E r \in GenerationResponses : GenerationReturns(r)
    \/ \E e \in CollaboratorErrors : StageRaises("compliance", e)
    \/ \E r \in HistoryReviewResponses : ReviewReturns(r)
    \/ \E r \in HistoryComplianceResponses : ComplianceReturns(r)
    \/ \E outcome \in HistoryStoreOutcomes : QueryReturns(outcome)
    \/ \E manual_sql \in ManualSqls, user_request \in {p \in Prompts : Strip(p) # <<>>} :
          ProcessManualSql(manual_sql, user_request)
    \/ \E r \in HistoryReviewResponses : ManualReviewReturns(r)
    \/ \E r \in HistoryComplianceResponses : ManualComplianceReturns(r)
    \/ \E outcome \in HistoryStoreOutcomes : ManualQueryReturns(outcome)
    \/ \E cell_id \in 1..(MaxRecords + 1) : DeleteRecord(cell_id)
    \/ ClearHistory

SpecHistory == Init /\ [][NextHistory]_vars

----------------------------------------------------------------------------
(* The compliance decision, called by itself on report texts.              *)

\* report texts are made of at most this many pieces
MaxReportPieces == 3

\* what report texts are made of: the characters of the tokens the decision looks for,
\* "compliant" in three spellings, and text it does not look for
ReportPieces ==
    { <<"u5408">>, <<"u89C4">>, <<"u4E0D">>, <<"u8FDD">>, <<"u901A">>, <<"u8FC7">>,
      TokCompliantEn, Upper(TokCompliantEn), <<"C","o","m","p","l","i","a","n","t">>,
      <<"n","o","t"," ">>, <<"x">> }

\* texts and texts with one piece more
Extended(texts, pieces) == texts \cup {t \o p : t \in texts, p \in pieces}

\* the texts of at most n pieces
RECURSIVE TextsOf(_, _)
TextsOf(pieces, n) == IF n = 0 THEN {<<>>} ELSE Extended(TextsOf(pieces, n - 1), pieces)

\* "合规, 但部分字段需脱敏", "This query is compliant.", "存在违规风险"
ReportCompliantMasked ==
    <<"u5408","u89C4",","," ","u4F46","u90E8","u5206","u5B57","u6BB5","u9700","u8131","u654F">>
ReportCompliantEnglish ==
    <<"T","h","i","s"," ","q","u","e","r","y"," ","i","s"," ","c","o","m","p","l","i","a","n","t",".">>
ReportViolationRisk == <<"u5B58","u5728","u8FDD","u89C4","u98CE","u9669">>

\* str(compliance_report) the decision is called with
ReportTexts ==
    TextsOf(ReportPieces, MaxReportPieces)
        \cup {ReportCompliantMasked, ReportCompliantEnglish, ReportViolationRisk}

InitCompliance ==
    /\ InitSession
    /\ call \in {Calling("is_compliant", PyStr(text)) : text \in ReportTexts}

\* the decision is made for the report
DecideCompliance ==
    /\ call.fn = "is_compliant" /\ ~call.done
    /\ call' = [call EXCEPT !.done = TRUE] @@ [result |-> is_compliant(call.arg)]
    /\ SessionUnchanged

NextCompliance == DecideCompliance

SpecCompliance == InitCompliance /\ [][NextCompliance]_vars

----------------------------------------------------------------------------
(* extract_sql_from_response, called by itself and followed strategy by    *)
(* strategy: call.step is the strategy it comes to next, call.tried the    *)
(* strategies it has evaluated, call.strategy the one whose return         *)
(* statement ended it (0: the return of the except branch).                *)

\* responses are made of at most this many pieces
MaxResponsePieces == 2

\* a JSON object with the SQL in sqlquery: {"sqlquery":"SELECT 1"}
RespJsonSql ==
    <<"{","\"","s","q","l","q","u","e","r","y","\"",":","\"","S","E","L","E","C","T"," ","1","\"","}">>
\* a JSON object whose sqlquery holds a comment only: {"sqlquery":"-- x"}
RespJsonComment ==
    <<"{","\"","s","q","l","q","u","e","r","y","\"",":","\"","-","-"," ","x","\"","}">>
\* a JSON object whose sqlquery is a number: {"sqlquery":5}
RespJsonNumber ==
    <<"{","\"","s","q","l","q","u","e","r","y","\"",":","5","}">>
\* a JSON object with sqlquery and reviewed_sqlquery: {"sqlquery":"SELECT 1","reviewed_sqlquery":"SELECT 2"}
RespJsonBoth ==
    <<"{","\"","s","q","l","q","u","e","r","y","\"",":","\"","S","E","L","E","C","T"," ","1","\"",",","\"","r","e","v","i","e","w","e","d","_","s","q","l","q","u","e","r","y","\"",":","\"","S","E","L","E","C","T"," ","2","\"","}">>
\* a JSON object without a field for the SQL: {"note":1}
RespJsonOther ==
    <<"{","\"","n","o","t","e","\"",":","1","}">>
\* a JSON object cut off: {"sqlquery":
RespJsonBroken ==
    <<"{","\"","s","q","l","q","u","e","r","y","\"",":">>
\* a json block with the SQL in query: ```json\n{"query":"SELECT 3"}\n```
RespBlockJson ==
    <<"u0060","u0060","u0060","j","s","o","n","\n","{","\"","q","u","e","r","y","\"",":","\"","S","E","L","E","C","T"," ","3","\"","}","\n","u0060","u0060","u0060">>
\* a json block whose sqlquery is a number: ```json{"sqlquery":7}```
RespBlockJsonNumber ==
    <<"u0060","u0060","u0060","j","s","o","n","{","\"","s","q","l","q","u","e","r","y","\"",":","7","}","u0060","u0060","u0060">>
\* a json block that does not parse: ```json{"sqlquery":}```
RespBlockJsonBroken ==
    <<"u0060","u0060","u0060","j","s","o","n","{","\"","s","q","l","q","u","e","r","y","\"",":","}","u0060","u0060","u0060">>
\* a sql block: ```sql\nSELECT 4\n```
RespBlockSql ==
    <<"u0060","u0060","u0060","s","q","l","\n","S","E","L","E","C","T"," ","4","\n","u0060","u0060","u0060">>
\* a sql block holding a comment only: ```sql\n-- c\n```
RespBlockSqlComment ==
    <<"u0060","u0060","u0060","s","q","l","\n","-","-"," ","c","\n","u0060","u0060","u0060">>
\* a statement: SELECT 5;
RespSelect ==
    <<"S","E","L","E","C","T"," ","5",";">>
\* a statement in lower case, not terminated: select 6
RespSelectLower ==
    <<"s","e","l","e","c","t"," ","6">>
\* the keyword only: SELECT
RespSelectBare ==
    <<"S","E","L","E","C","T">>
\* an UPDATE statement: UPDATE t;
RespUpdate ==
    <<"U","P","D","A","T","E"," ","t",";">>
\* a WITH statement: with c;
RespWith ==
    <<"w","i","t","h"," ","c",";">>
\* a statement over two lines, with a comment and an indented line: select 7 -- c\n  from t
RespSelectLines ==
    <<"s","e","l","e","c","t"," ","7"," ","-","-"," ","c","\n"," "," ","f","r","o","m"," ","t">>
\* a WITH statement that holds SELECT: WITH a AS (SELECT 1) SELECT 2;
RespCte ==
    <<"W","I","T","H"," ","a"," ","A","S"," ","(","S","E","L","E","C","T"," ","1",")"," ","S","E","L","E","C","T"," ","2",";">>
\* other text: ok
RespText ==
    <<"o","k">>
\* a line break: \n
RespNewline ==
    <<"\n">>

ResponsePieces ==
    {RespJsonSql, RespJsonComment, RespJsonNumber, RespJsonBoth,
     RespJsonOther, RespJsonBroken, RespBlockJson, RespBlockJsonNumber,
     RespBlockJsonBroken, RespBlockSql, RespBlockSqlComment, RespSelect,
     RespSelectLower, RespSelectBare, RespUpdate, RespWith,
     RespSelectLines, RespCte, RespText, RespNewline}

\* str(result) of a collaborator the function is called with
ResponseTexts == TextsOf(ResponsePieces, MaxResponsePieces)

\* the call before its first strategy
Extracting(response_text) ==
    [fn |-> "extract_sql_from_response", arg |-> response_text, done |-> FALSE,
     step |-> 1, tried |-> <<>>, strategy |-> 7, result |-> <<>>]

InitExtract ==
    /\ InitSession
    /\ call \in {Extracting(response_text) : response_text \in ResponseTexts}

\* strategy k returns sql
Returns(k, sql) ==
    [call EXCEPT !.done = TRUE, !.tried = Append(@, k), !.strategy = k, !.result = sql]

\* strategy k raises: the except branch returns the cleaned response
Raises(k) ==
    [call EXCEPT !.done = TRUE, !.tried = Append(@, k), !.strategy = 0,
                 !.result = clean_sql_content(call.arg)]

\* strategy k returns nothing: on to the next
FallsThrough(k) == [call EXCEPT !.tried = Append(@, k), !.step = k + 1]

AtStrategy(k) == call.fn = "extract_sql_from_response" /\ ~call.done /\ call.step = k

\* what a JSON strategy does with the field it found, or did not find
AfterField(k, field) ==
    CASE field.kind = "return" -> Returns(k, field.sql)
      [] field.kind = "raise" -> Raises(k)
      [] OTHER -> FallsThrough(k)

\* AfterMatch going on to the next strategy with the match in hand
AfterMatchNoReturn(k, match) == FallsThrough(k)

\* what a regular-expression strategy does with its match
AfterMatch(k, match) ==
    IF match.found THEN Returns(k, clean_sql_content(match.group)) ELSE FallsThrough(k)

\* what the cleaned-text strategy does with the cleaned response
AfterCleaned(k, cleaned) ==
    IF Contains(Upper(cleaned), KwSelect) THEN Returns(k, cleaned) ELSE FallsThrough(k)

\* strategy 1: the response as a JSON object
TryRawJson ==
    /\ AtStrategy(1)
    /\ call' = AfterField(1, ExtractRawJson(call.arg))
    /\ SessionUnchanged

\* strategy 2: a json block
TryJsonBlock ==
    /\ AtStrategy(2)
    /\ call' = AfterField(2, ExtractJsonBlock(call.arg))
    /\ SessionUnchanged

\* strategy 3: a sql block
TrySqlBlock ==
    /\ AtStrategy(3)
    /\ call' = AfterMatch(3, SqlFenceMatch(call.arg))
    /\ SessionUnchanged

\* strategy 4: a SELECT span
TrySelectSpan ==
    /\ AtStrategy(4)
    /\ call' = AfterMatch(4, SelectSpanMatch(call.arg))
    /\ SessionUnchanged

\* strategy 5: the cleaned response, when it holds SELECT
TryCleanedText ==
    /\ AtStrategy(5)
    /\ call' = AfterCleaned(5, clean_sql_content(call.arg))
    /\ SessionUnchanged

\* strategy 6: the statement patterns
TryPatterns ==
    /\ AtStrategy(6)
    /\ call' = AfterMatch(6, PatternMatch(call.arg))
    /\ SessionUnchanged

\* strategy 7: the cleaned response, whatever it holds
ReturnCleaned ==
    /\ AtStrategy(7)
    /\ call' = Returns(7, clean_sql_content(call.arg))
    /\ SessionUnchanged

NextExtract ==
    \/ TryRawJson
    \/ TryJsonBlock
    \/ TrySqlBlock
    \/ TrySelectSpan
    \/ TryCleanedText
    \/ TryPatterns
    \/ ReturnCleaned

SpecExtract == InitExtract /\ [][NextExtract]_vars

----------------------------------------------------------------------------
(* clean_sql_content, called by itself: once on a text, then on its own    *)
(* output.                                                                 *)

\* texts to clean have at most this many characters
MaxCleanLen == 4

\* the characters clean_sql_content treats specially, a letter and the terminator
CleanCharacters ==
    { <<Quote>>, <<"'">>, <<" ">>, <<NL>>, <<"-">>, <<"#">>, <<"a">>, <<";">> }

CleanTexts == TextsOf(CleanCharacters, MaxCleanLen)

InitClean ==
    /\ InitSession
    /\ call \in {[fn |-> "clean_sql_content", arg |-> sql_content, times |-> 0,
                  once |-> <<>>, twice |-> <<>>] : sql_content \in CleanTexts}

\* clean_sql_content(sql_content)
CleanOnce ==
    /\ call.fn = "clean_sql_content" /\ call.times = 0
    /\ call' = [call EXCEPT !.times = 1, !.once = clean_sql_content(call.arg)]
    /\ SessionUnchanged

\* clean_sql_content of what the first call returned
CleanAgain ==
    /\ call.fn = "clean_sql_content" /\ call.times = 1
    /\ call' = [call EXCEPT !.times = 2, !.twice = clean_sql_content(call.once)]
    /\ SessionUnchanged

NextClean ==
    \/ CleanOnce
    \/ CleanAgain

SpecClean == InitClean /\ [][NextClean]_vars

----------------------------------------------------------------------------
(* The tables a request is given the schema of: identify_relevant_tables   *)
(* and the core tables extract_relevant_metadata falls back to.            *)

\* requests are made of at most this many pieces
MaxRequestPieces == 2

\* the names of the tables create_database makes
departments ==
    <<"d","e","p","a","r","t","m","e","n","t","s">>
employees ==
    <<"e","m","p","l","o","y","e","e","s">>
product_categories ==
    <<"p","r","o","d","u","c","t","_","c","a","t","e","g","o","r","i","e","s">>
suppliers ==
    <<"s","u","p","p","l","i","e","r","s">>
products ==
    <<"p","r","o","d","u","c","t","s">>
inventory_logs ==
    <<"i","n","v","e","n","t","o","r","y","_","l","o","g","s">>
customer_segments ==
    <<"c","u","s","t","o","m","e","r","_","s","e","g","m","e","n","t","s">>
customers ==
    <<"c","u","s","t","o","m","e","r","s">>
website_sessions ==
    <<"w","e","b","s","i","t","e","_","s","e","s","s","i","o","n","s">>
orders ==
    <<"o","r","d","e","r","s">>
order_items ==
    <<"o","r","d","e","r","_","i","t","e","m","s">>
product_reviews ==
    <<"p","r","o","d","u","c","t","_","r","e","v","i","e","w","s">>
customer_support_tickets ==
    <<"c","u","s","t","o","m","e","r","_","s","u","p","p","o","r","t","_","t","i","c","k","e","t","s">>
marketing_campaigns ==
    <<"m","a","r","k","e","t","i","n","g","_","c","a","m","p","a","i","g","n","s">>
campaign_interactions ==
    <<"c","a","m","p","a","i","g","n","_","i","n","t","e","r","a","c","t","i","o","n","s">>
sales_targets ==
    <<"s","a","l","e","s","_","t","a","r","g","e","t","s">>
employee_performance ==
    <<"e","m","p","l","o","y","e","e","_","p","e","r","f","o","r","m","a","n","c","e">>
regional_performance ==
    <<"r","e","g","i","o","n","a","l","_","p","e","r","f","o","r","m","a","n","c","e">>

\* sqlite_master lists the tables in the order of their creation
FullSchema ==
    <<departments, employees, product_categories, suppliers,
      products, inventory_logs, customer_segments, customers,
      website_sessions, orders, order_items, product_reviews,
      customer_support_tickets, marketing_campaigns, campaign_interactions, sales_targets,
      employee_performance, regional_performance>>

\* keyword -> tables, in the order the dict is written and iterated in
keyword_table_mapping ==
    <<
      [keyword |-> <<"u9500","u552E">>, tables |-> <<orders, order_items, products>>],   \* 销售
      [keyword |-> <<"u8BA2","u5355">>, tables |-> <<orders, order_items, customers>>],   \* 订单
      [keyword |-> <<"u6536","u5165">>, tables |-> <<orders, order_items, products>>],   \* 收入
      [keyword |-> <<"u91D1","u989D">>, tables |-> <<orders, order_items>>],   \* 金额
      [keyword |-> <<"s","a","l","e","s">>, tables |-> <<orders, order_items, products>>],
      [keyword |-> <<"r","e","v","e","n","u","e">>, tables |-> <<orders, order_items, products>>],
      [keyword |-> <<"o","r","d","e","r">>, tables |-> <<orders, order_items, customers>>],
      [keyword |-> <<"u4EA7","u54C1">>, tables |-> <<products, product_categories, suppliers, order_items>>],   \* 产品
      [keyword |-> <<"u5546","u54C1">>, tables |-> <<products, product_categories, order_items>>],   \* 商品
      [keyword |-> <<"p","r","o","d","u","c","t">>, tables |-> <<products, product_categories, suppliers, order_items>>],
      [keyword |-> <<"u5206","u7C7B">>, tables |-> <<product_categories, products>>],   \* 分类
      [keyword |-> <<"c","a","t","e","g","o","r","y">>, tables |-> <<product_categories, products>>],
      [keyword |-> <<"u5BA2","u6237">>, tables |-> <<customers, customer_segments, orders>>],   \* 客户
      [keyword |-> <<"u7528","u6237">>, tables |-> <<customers, customer_segments, website_sessions>>],   \* 用户
      [keyword |-> <<"c","u","s","t","o","m","e","r">>, tables |-> <<customers, customer_segments, orders>>],
      [keyword |-> <<"u","s","e","r">>, tables |-> <<customers, website_sessions>>],
      [keyword |-> <<"u5458","u5DE5">>, tables |-> <<employees, departments, employee_performance>>],   \* 员工
      [keyword |-> <<"u90E8","u95E8">>, tables |-> <<departments, employees>>],   \* 部门
      [keyword |-> <<"e","m","p","l","o","y","e","e">>, tables |-> <<employees, departments, employee_performance>>],
      [keyword |-> <<"d","e","p","a","r","t","m","e","n","t">>, tables |-> <<departments, employees>>],
      [keyword |-> <<"u8BC4","u4EF7">>, tables |-> <<product_reviews, products, customers>>],   \* 评价
      [keyword |-> <<"u8BC4","u8BBA">>, tables |-> <<product_reviews, products>>],   \* 评论
      [keyword |-> <<"r","e","v","i","e","w">>, tables |-> <<product_reviews, products, customers>>],
      [keyword |-> <<"r","a","t","i","n","g">>, tables |-> <<product_reviews, products>>],
      [keyword |-> <<"u652F","u6301">>, tables |-> <<customer_support_tickets, customers, employees>>],   \* 支持
      [keyword |-> <<"u5DE5","u5355">>, tables |-> <<customer_support_tickets, customers>>],   \* 工单
      [keyword |-> <<"s","u","p","p","o","r","t">>, tables |-> <<customer_support_tickets, customers, employees>>],
      [keyword |-> <<"t","i","c","k","e","t">>, tables |-> <<customer_support_tickets, customers>>],
      [keyword |-> <<"u7F51","u7AD9">>, tables |-> <<website_sessions, customers>>],   \* 网站
      [keyword |-> <<"u4F1A","u8BDD">>, tables |-> <<website_sessions, customers>>],   \* 会话
      [keyword |-> <<"w","e","b","s","i","t","e">>, tables |-> <<website_sessions, customers>>],
      [keyword |-> <<"s","e","s","s","i","o","n">>, tables |-> <<website_sessions, customers>>],
      [keyword |-> <<"u8425","u9500">>, tables |-> <<marketing_campaigns, campaign_interactions, customers>>],   \* 营销
      [keyword |-> <<"u6D3B","u52A8">>, tables |-> <<marketing_campaigns, campaign_interactions>>],   \* 活动
      [keyword |-> <<"m","a","r","k","e","t","i","n","g">>, tables |-> <<marketing_campaigns, campaign_interactions, customers>>],
      [keyword |-> <<"c","a","m","p","a","i","g","n">>, tables |-> <<marketing_campaigns, campaign_interactions>>],
      [keyword |-> <<"u6700","u8FD1">>, tables |-> <<orders, order_items, website_sessions>>],   \* 最近
      [keyword |-> <<"u4ECA","u5929">>, tables |-> <<orders, website_sessions>>],   \* 今天
      [keyword |-> <<"u672C","u6708">>, tables |-> <<orders, order_items>>],   \* 本月
      [keyword |-> <<"u8D8B","u52BF">>, tables |-> <<orders, order_items, website_sessions>>],   \* 趋势
      [keyword |-> <<"r","e","c","e","n","t">>, tables |-> <<orders, order_items, website_sessions>>],
      [keyword |-> <<"t","o","d","a","y">>, tables |-> <<orders, website_sessions>>],
      [keyword |-> <<"t","r","e","n","d">>, tables |-> <<orders, order_items, website_sessions>>],
      [keyword |-> <<"u603B","u989D">>, tables |-> <<orders, order_items>>],   \* 总额
      [keyword |-> <<"u6570","u91CF">>, tables |-> <<orders, order_items, products, customers>>],   \* 数量
      [keyword |-> <<"u5E73","u5747">>, tables |-> <<orders, order_items, product_reviews>>],   \* 平均
      [keyword |-> <<"u6392","u884C">>, tables |-> <<orders, order_items, products>>],   \* 排行
      [keyword |-> <<"t","o","t","a","l">>, tables |-> <<orders, order_items>>],
      [keyword |-> <<"c","o","u","n","t">>, tables |-> <<orders, order_items, products, customers>>],
      [keyword |-> <<"a","v","e","r","a","g","e">>, tables |-> <<orders, order_items, product_reviews>>],
      [keyword |-> <<"t","o","p">>, tables |-> <<orders, order_items, products>>],
      [keyword |-> <<"r","a","n","k">>, tables |-> <<orders, order_items, products>>]
    >>

\* table in tables
IsIn(table, tables) == \E i \in 1..Len(tables) : tables[i] = table

\* tables[:n]
Truncated(tables, n) == SubSeq(tables, 1, IF Len(tables) < n THEN Len(tables) ELSE n)

\* for table in tables: appended when the store has it and it is not listed yet
\* (AppendTablesFirstOnly takes the first table of the list only)
RECURSIVE AppendTablesFirstOnly(_, _, _)
AppendTablesFirstOnly(relevant_tables, tables, all_tables) ==
    IF tables = <<>> THEN relevant_tables
    ELSE IF IsIn(tables[1], all_tables) /\ ~IsIn(tables[1], relevant_tables)
         THEN Append(relevant_tables, tables[1])
         ELSE relevant_tables
RECURSIVE AppendTables(_, _, _)
AppendTables(relevant_tables, tables, all_tables) ==
    IF tables = <<>> THEN relevant_tables
    ELSE AppendTables(IF IsIn(tables[1], all_tables) /\ ~IsIn(tables[1], relevant_tables)
                      THEN Append(relevant_tables, tables[1])
                      ELSE relevant_tables,
                      Tail(tables), all_tables)

\* the entries of the map whose keyword the request holds, in the order of the map
MatchedKeywords(query_lower) ==
    SelectSeq(keyword_table_mapping, LAMBDA entry : Contains(query_lower, entry.keyword))

\* the loop over the keywords: the tables of each keyword the request holds
RECURSIVE MatchKeywords(_, _, _)
MatchKeywords(relevant_tables, entries, all_tables) ==
    IF entries = <<>> THEN relevant_tables
    ELSE MatchKeywords(AppendTables(relevant_tables, entries[1].tables, all_tables),
                       Tail(entries), all_tables)

\* the tables whose name the request holds, in the order of all_tables
MatchedNames(query_lower, all_tables) ==
    SelectSeq(all_tables, LAMBDA table : Contains(query_lower, Lower(table)))

\* the loop over the tables: each table whose name the request holds, unless listed
MatchTableNames(relevant_tables, query_lower, all_tables) ==
    AppendTables(relevant_tables, MatchedNames(query_lower, all_tables), all_tables)

\* both loops on the request in lower case
MatchedTables(query_lower, all_tables) ==
    MatchTableNames(MatchKeywords(<<>>, MatchedKeywords(query_lower), all_tables),
                    query_lower, all_tables)

\* identify_relevant_tables without the cut to five
identify_relevant_tablesNoLimit(user_query, all_tables) ==
    MatchedTables(Lower(user_query), all_tables)
identify_relevant_tables(user_query, all_tables) ==
    Truncated(MatchedTables(Lower(user_query), all_tables), 5)

core_tables == <<orders, order_items, products, customers>>

\* get_core_business_tables without the test for the tables of the store
get_core_business_tablesUnfiltered(all_tables) == core_tables
get_core_business_tables(all_tables) ==
    SelectSeq(core_tables, LAMBDA table : IsIn(table, all_tables))

\* if not relevant_tables: relevant_tables = get_core_business_tables(all_tables)
OrCoreTables(relevant_tables, all_tables) ==
    IF relevant_tables = <<>> THEN get_core_business_tables(all_tables) ELSE relevant_tables

\* the tables extract_relevant_metadata builds the schema text of
relevant_tables(user_query, all_tables) ==
    OrCoreTables(identify_relevant_tables(user_query, all_tables), all_tables)

\* "列出销售额最高的前10个产品"
RequestTopProducts ==
    <<"u5217","u51FA","u9500","u552E","u989D","u6700","u9AD8","u7684","u524D","1","0","u4E2A","u4EA7","u54C1">>

\* what requests are made of: keywords in Chinese and in English, in lower case and
\* not, names of tables that hold no keyword, and text that matches nothing
RequestPieces ==
    { <<"u9500","u552E">>,
      <<"u4EA7","u54C1">>,
      <<"u5458","u5DE5">>,
      <<"u8BC4","u4EF7">>,
      <<"u4F60","u597D">>,
      <<"o","r","d","e","r">>,
      <<"T","o","p"," ">>,
      <<"c","o","u","n","t">>,
      <<"u","s","e","r">>,
      <<"i","n","v","e","n","t","o","r","y","_","l","o","g","s">>,
      <<"S","U","P","P","L","I","E","R","S">>,
      <<" ","x"," ">> }

RequestTexts == TextsOf(RequestPieces, MaxRequestPieces) \cup {RequestTopProducts}

\* all_tables without one table
WithoutTable(all_tables, table) == SelectSeq(all_tables, LAMBDA t : t # table)

\* the tables of the store: all of them, all but one of the core tables, and a few only
StoreTables ==
    {FullSchema} \cup {WithoutTable(FullSchema, table) : table \in {orders, order_items, products, customers}}
        \cup { core_tables, <<products, orders, order_items>>, <<suppliers, inventory_logs>>, <<>> }

InitTables ==
    /\ InitSession
    /\ call \in {Calling("extract_relevant_metadata",
                         [user_query |-> user_query, all_tables |-> all_tables]) :
                     user_query \in RequestTexts, all_tables \in StoreTables}

\* the tables are selected for the request
SelectTables ==
    /\ call.fn = "extract_relevant_metadata" /\ ~call.done
    /\ call' = [call EXCEPT !.done = TRUE]
                   @@ [result |-> relevant_tables(call.arg.user_query, call.arg.all_tables)]
    /\ SessionUnchanged

NextTables == SelectTables

SpecTables == InitTables /\ [][NextTables]_vars

----------------------------------------------------------------------------
(* The tables the review stage is given the schema of: the tables          *)
(* extract_tables_from_sql finds in the generated SQL, written into a      *)
(* sentence that extract_relevant_metadata selects the tables for.         *)

\* SQL texts are made of at most this many pieces
MaxSqlPieces == 2

\* [a-zA-Z_] and [a-zA-Z0-9_]
NameStartChars == {LowerCase[i] : i \in 1..26} \cup {UpperCase[i] : i \in 1..26} \cup {"_"}
NameChars == NameStartChars \cup Digits

\* the position of the newline that ends the line position i is on, Len(s)+1 on the last line
LineEnd(s, i) == First({k \in i..(Len(s) + 1) : k = Len(s) + 1 \/ s[k] = NL})

\* re.sub(r'--.*$', '', s, flags=re.MULTILINE)
RECURSIVE RemoveLineComments(_)
CutLineComment(s, i) == SubSeq(s, 1, i - 1) \o RemoveLineComments(From(s, LineEnd(s, i)))
RemoveLineComments(s) ==
    IF Contains(s, <<"-","-">>) THEN CutLineComment(s, Find(s, 1, <<"-","-">>)) ELSE s

\* re.sub(r'/\*.*?\*/', '', s, flags=re.DOTALL): an opening without a closing stays
RECURSIVE RemoveBlockComments(_)
CutBlockComment(s, i, j) ==
    IF j = 0 THEN s ELSE SubSeq(s, 1, i - 1) \o RemoveBlockComments(From(s, j + 2))
OpenBlockComment(s, i) ==
    IF i = 0 THEN s ELSE CutBlockComment(s, i, Find(s, i + 2, <<"*","/">>))
RemoveBlockComments(s) == OpenBlockComment(s, Find(s, 1, <<"/","*">>))

\* the first position >= i of s that holds no character of a name: what [a-zA-Z0-9_]* consumes
RECURSIVE SkipName(_, _)
SkipName(s, i) == IF i <= Len(s) /\ s[i] \in NameChars THEN SkipName(s, i + 1) ELSE i

\* (?:FROM|JOIN) at position i, in any case
ClauseAt(lower, i) ==
    MatchAt(lower, i, <<"f","r","o","m">>) \/ MatchAt(lower, i, <<"j","o","i","n">>)

\* \s+([a-zA-Z_][a-zA-Z0-9_]*) from position i on: a name starts at j
NameAt(s, i, j) == j > i /\ j <= Len(s) /\ s[j] \in NameStartChars

\* re.findall of the pattern from position i on: the names, in the order of the text;
\* the search goes on behind a name it found, and one character behind a clause without one
RECURSIVE TableMatches(_, _, _)
MatchedName(s, lower, j, k) == <<SubSeq(s, j, k - 1)>> \o TableMatches(s, lower, k)
AfterClause(s, lower, i, j) ==
    IF NameAt(s, i + 4, j)
    THEN MatchedName(s, lower, j, SkipName(s, j))
    ELSE TableMatches(s, lower, i + 1)
NextClause(s, lower, i) ==
    IF i = 0 THEN <<>> ELSE AfterClause(s, lower, i, SkipSpace(s, i + 4))
TableMatches(s, lower, i) ==
    NextClause(s, lower, First({k \in i..Len(s) : ClauseAt(lower, k)}))

FindTables(sql_clean) == TableMatches(sql_clean, Lower(sql_clean), 1)

\* the members of a list
SetOf(list) == {list[i] : i \in 1..Len(list)}

\* set(matches): the names the SQL has after FROM and JOIN, outside comments
extract_tables_from_sql(sql_query) ==
    SetOf(FindTables(RemoveBlockComments(RemoveLineComments(sql_query))))

\* list(a_set): the members in an order the build chooses
Orderings(names) ==
    {list \in [1..Cardinality(names) -> names] : SetOf(list) = names}

\* ', '.join(names)
RECURSIVE JoinComma(_)
JoinComma(names) ==
    IF names = <<>> THEN <<>>
    ELSE IF Len(names) = 1 THEN names[1]
    ELSE names[1] \o <<",", " ">> \o JoinComma(Tail(names))

\* f"SQL查询涉及的表: {', '.join(tables_in_query)}"
user_query_context(tables_in_query) ==
    <<"S","Q","L","u67E5","u8BE2","u6D89","u53CA","u7684","u8868",":"," ">> \o JoinComma(tables_in_query)

\* what the generated SQL is made of: clauses that name a table of the store, in upper
\* and in lower case, clauses inside comments, and text without a clause
SqlPieces ==
    { <<"S","E","L","E","C","T"," ","*">>,
      <<" ","F","R","O","M"," ","p","r","o","d","u","c","t","_","r","e","v","i","e","w","s">>,
      <<" ","J","O","I","N"," ","i","n","v","e","n","t","o","r","y","_","l","o","g","s">>,
      <<" ","F","R","O","M"," ","o","r","d","e","r","s">>,
      <<" ","j","o","i","n"," ","c","u","s","t","o","m","e","r","s">>,
      <<" ","J","O","I","N"," ","s","u","p","p","l","i","e","r","s"," ","s">>,
      <<" ","-","-"," ","F","R","O","M"," ","e","m","p","l","o","y","e","e","s","\n">>,
      <<" ","/","*"," ","J","O","I","N"," ","d","e","p","a","r","t","m","e","n","t","s"," ","*","/">>,
      <<" ","W","H","E","R","E"," ","x"," ","="," ","1">> }

SqlTexts == TextsOf(SqlPieces, MaxSqlPieces)

InitReviewTask ==
    /\ InitSession
    /\ call \in {Calling("create_sql_review_task",
                         [sql_query |-> sql_query, all_tables |-> all_tables]) :
                     sql_query \in SqlTexts,
                     all_tables \in {FullSchema, WithoutTable(FullSchema, products)}}

\* the review task is made for the SQL: its tables, in some order, and the tables
\* selected for the sentence that names them
CreateReviewTask ==
    /\ call.fn = "create_sql_review_task" /\ ~call.done
    /\ \E tables_in_query \in Orderings(extract_tables_from_sql(call.arg.sql_query)) :
           call' = [call EXCEPT !.done = TRUE]
                       @@ [tables_in_query |-> tables_in_query,
                           result |-> relevant_tables(user_query_context(tables_in_query),
                                                      call.arg.all_tables)]
    /\ SessionUnchanged

NextReviewTask == CreateReviewTask

SpecReviewTask == InitReviewTask /\ [][NextReviewTask]_vars

----------------------------------------------------------------------------
(* run_query_to_dataframe, called by itself and followed step by step:     *)
(* the connection it opens, the query it rewrites for SQLite, what the     *)
(* store does with the query, and what it returns.                         *)

\* queries are made of at most this many pieces
MaxQueryPieces == 2

QuoteChars == {"'", Quote}

NoInterval == [found |-> FALSE, days |-> <<>>, stop |-> 0]

\* the pattern CURRENT_DATE\s*-\s*INTERVAL\s*['"](\d+)\s*days?['"] at one position of s,
\* in any case (lower is s in lower case): the digits and the position behind the match
IntervalQuote(s, lower, d, e, x) ==
    IF x <= Len(s) /\ lower[x] = "s" /\ x + 1 <= Len(s) /\ s[x + 1] \in QuoteChars
    THEN [found |-> TRUE, days |-> SubSeq(s, d, e - 1), stop |-> x + 2]
    ELSE IF x <= Len(s) /\ s[x] \in QuoteChars
    THEN [found |-> TRUE, days |-> SubSeq(s, d, e - 1), stop |-> x + 1]
    ELSE NoInterval
IntervalUnit(s, lower, d, e, w) ==
    IF MatchAt(lower, w, <<"d","a","y">>) THEN IntervalQuote(s, lower, d, e, w + 3)
    ELSE NoInterval
IntervalDigits(s, lower, d, e) ==
    IF e > d THEN IntervalUnit(s, lower, d, e, SkipSpace(s, e)) ELSE NoInterval
IntervalOpen(s, lower, q) ==
    IF q <= Len(s) /\ s[q] \in QuoteChars
    THEN IntervalDigits(s, lower, q + 1, SkipDigits(s, q + 1))
    ELSE NoInterval
IntervalWord(s, lower, k) ==
    IF MatchAt(lower, k, <<"i","n","t","e","r","v","a","l">>)
    THEN IntervalOpen(s, lower, SkipSpace(s, k + 8))
    ELSE NoInterval
IntervalMinus(s, lower, j) ==
    IF j <= Len(s) /\ s[j] = "-" THEN IntervalWord(s, lower, SkipSpace(s, j + 1))
    ELSE NoInterval
IntervalAt(s, lower, i) ==
    IF MatchAt(lower, i, <<"c","u","r","r","e","n","t","_","d","a","t","e">>)
    THEN IntervalMinus(s, lower, SkipSpace(s, i + 12))
    ELSE NoInterval

\* r"date('now', '-\1 days')"
SqliteDate(days) ==
    <<"d","a","t","e","(","'","n","o","w","'",","," ","'","-">> \o days
        \o <<" ","d","a","y","s","'",")">>

\* re.sub(pattern, r"date('now', '-\1 days')", s, flags=re.IGNORECASE)
RECURSIVE SubIntervals(_)
SubInterval(s, i, m) ==
    SubSeq(s, 1, i - 1) \o SqliteDate(m.days) \o SubIntervals(From(s, m.stop))
SubIntervalFrom(s, lower, i) ==
    IF i = 0 THEN s ELSE SubInterval(s, i, IntervalAt(s, lower, i))
SubIntervalsIn(s, lower) ==
    SubIntervalFrom(s, lower, First({i \in 1..Len(s) : IntervalAt(s, lower, i).found}))
SubIntervals(s) == SubIntervalsIn(s, Lower(s))

\* s.replace(old, new)
RECURSIVE Replaced(_, _, _)
ReplacedAt(s, i, old, new) ==
    IF i = 0 THEN s
    ELSE SubSeq(s, 1, i - 1) \o new \o Replaced(From(s, i + Len(old)), old, new)
Replaced(s, old, new) == ReplacedAt(s, Find(s, 1, old), old, new)

Interval30 ==
    <<"C","U","R","R","E","N","T","_","D","A","T","E"," ","-"," ","I","N","T","E","R","V","A","L"," ","'","3","0"," ","d","a","y","s","'">>
Interval31 ==
    <<"C","U","R","R","E","N","T","_","D","A","T","E"," ","-"," ","I","N","T","E","R","V","A","L"," ","'","3","1"," ","d","a","y","s","'">>

\* the three rewrites of run_query_to_dataframe, each assigning processed_query: the
\* second and the third start from query again
AfterInterval31(query, processed_query) ==
    IF Contains(query, <<"-"," ","I","N","T","E","R","V","A","L"," ","'","3","1"," ","d","a","y","s","'">>)
    THEN Replaced(query, Interval31, SqliteDate(<<"3","1">>))
    ELSE processed_query
AfterInterval30(query, processed_query) ==
    AfterInterval31(query,
        IF Contains(query, <<"-"," ","I","N","T","E","R","V","A","L"," ","'","3","0"," ","d","a","y","s","'">>)
        THEN Replaced(query, Interval30, SqliteDate(<<"3","0">>))
        ELSE processed_query)
ProcessedQuery(query) ==
    AfterInterval30(query,
        IF Contains(Upper(query), <<"C","U","R","R","E","N","T","_","D","A","T","E"," ","-"," ","I","N","T","E","R","V","A","L">>)
        THEN SubIntervals(query)
        ELSE query)

\* what queries are made of: intervals of 7, 30 and 31 days as PostgreSQL writes them,
\* one in lower case with double quotes, and text around them
QueryPieces ==
    { <<"d"," ",">"," ">>,
      <<"C","U","R","R","E","N","T","_","D","A","T","E"," ","-"," ","I","N","T","E","R","V","A","L"," ","'","7"," ","d","a","y","s","'">>,
      <<"C","U","R","R","E","N","T","_","D","A","T","E"," ","-"," ","I","N","T","E","R","V","A","L"," ","'","3","0"," ","d","a","y","s","'">>,
      <<"C","U","R","R","E","N","T","_","D","A","T","E"," ","-"," ","I","N","T","E","R","V","A","L"," ","'","3","1"," ","d","a","y","s","'">>,
      <<"c","u","r","r","e","n","t","_","d","a","t","e"," ","-"," ","i","n","t","e","r","v","a","l"," ","\"","7"," ","d","a","y","\"">>,
      <<" ","A","N","D"," ","e"," ","<"," ">> }

QueryTexts == TextsOf(QueryPieces, MaxQueryPieces)

\* str(e) of the error sqlite3.connect raises
ConnectErrors == { <<"u","n","a","b","l","e"," ","t","o"," ","o","p","e","n">> }

\* call.conn: "none" before sqlite3.connect and when it raised, "open" once it returned,
\* "closed" after conn.close(); call.step is the statement the call comes to next,
\* call.raised the text of the exception the try block raised
InitExecute ==
    /\ InitSession
    /\ call \in {[fn |-> "run_query_to_dataframe", arg |-> query, done |-> FALSE,
                  step |-> "connect", conn |-> "none", processed_query |-> query,
                  store |-> "none", raised |-> <<>>, result |-> <<>>] :
                     query \in QueryTexts}

ExecuteAt(step) == call.fn = "run_query_to_dataframe" /\ ~call.done /\ call.step = step

\* the except branch for the exception with text e: return None, error_msg
ExceptQuery(c, e) ==
    [c EXCEPT !.done = TRUE, !.step = "returned", !.store = "error", !.raised = e,
              !.result = run_query_to_dataframe(c.processed_query, [kind |-> "error", text |-> e])]

\* conn = sqlite3.connect(DB_PATH)
Connect ==
    /\ ExecuteAt("connect")
    /\ call' = [call EXCEPT !.conn = "open", !.step = "rewrite"]
    /\ SessionUnchanged

\* sqlite3.connect raises
ConnectRaises(e) ==
    /\ ExecuteAt("connect")
    /\ call' = ExceptQuery(call, e)
    /\ SessionUnchanged

\* lines 59-85: the query is rewritten
RewriteQuery ==
    /\ ExecuteAt("rewrite")
    /\ call' = [call EXCEPT !.processed_query = ProcessedQuery(call.arg), !.step = "read"]
    /\ SessionUnchanged

\* pd.read_sql_query returns, conn.close() is called, df and text_result are returned
ReadReturns(outcome) ==
    /\ ExecuteAt("read")
    /\ outcome.kind # "error"
    /\ call' = [call EXCEPT !.done = TRUE, !.step = "returned", !.conn = "closed",
                            !.store = outcome.kind,
                            !.result = run_query_to_dataframe(call.processed_query, outcome)]
    /\ SessionUnchanged

\* pd.read_sql_query raises: the except branch returns without conn.close(); whether the
\* connection is closed when its last reference goes is up to the interpreter's collector
ReadRaises(outcome, conn) ==
    /\ ExecuteAt("read")
    /\ outcome.kind = "error"
    /\ conn \in {"open", "closed"}
    /\ call' = [ExceptQuery(call, outcome.text) EXCEPT !.conn = conn]
    /\ SessionUnchanged

NextExecute ==
    \/ Connect
    \/ \E e \in ConnectErrors : ConnectRaises(e)
    \/ RewriteQuery
    \/ \E outcome \in StoreOutcomes : ReadReturns(outcome)
    \/ \E outcome \in StoreOutcomes, conn \in {"open", "closed"} : ReadRaises(outcome, conn)

SpecExecute == InitExecute /\ [][NextExecute]_vars

----------------------------------------------------------------------------
(* What a run shows: the stages it called, and how often a record is in    *)
(* the history.                                                            *)

StagesCalled == {run.calls[k].stage : k \in 1..Len(run.calls)}

Occurrences(id) == Cardinality({k \in 1..Len(analysis_history) : analysis_history[k] = id})

\* a run of execute_new_analysis or process_manual_sql is over
RunOver == pc = "idle" /\ run.kind \in {"auto", "manual"}

Present(x) == ~IsNone(x)

----------------------------------------------------------------------------
(* The claims.                                                             *)

\* C1: in both pipeline paths, a run whose compliance report is classified non-compliant
\* (and whose record is saved without a failure of add_to_history) ends with the record
\* in status compliance_failed and never calls run_query_to_dataframe.
C1_NonCompliantEndsComplianceFailed ==
    (RunOver /\ run.compliant = "no" /\ ~run.add_failed)
        => /\ records[run.rec].status = "compliance_failed"
           /\ "execution" \notin StagesCalled

\* C2: a record whose status became pending_execution ends the run in exactly one of
\* completed, query_failed, compliance_failed, whatever the report (a str or a structured
\* value) and whatever the executor's outcome; never in error, never still pending.
C2_PendingEndsInOutcome ==
    (RunOver /\ run.pending /\ ~run.add_failed)
        => records[run.rec].status \in {"completed", "query_failed", "compliance_failed"}

\* C3: every run of execute_new_analysis with a non-blank prompt and of process_manual_sql
\* with non-blank SQL leaves the history exactly one entry longer than it found it,
\* whatever the collaborators and the executor return or raise (stated here for the runs
\* in which add_to_history does not fail; the claim also covers those in which it does).
C3_HistoryGrowsByOne == (RunOver /\ ~run.add_failed) => Len(analysis_history) = run.hlen + 1

\* C4: in every reachable state a record has status completed only if its report was
\* classified compliant and the executor returned a table for it, and status query_failed
\* only if its report was classified compliant and the executor returned None.
C4_OutcomeStatusJustified ==
    /\ \A id \in DOMAIN records :
          /\ records[id].status = "completed"
                => /\ is_compliant(records[id].compliance_report)
                   /\ Present(records[id].query_dataframe)
          /\ records[id].status = "query_failed"
                => /\ is_compliant(records[id].compliance_report)
                   /\ IsNone(records[id].query_dataframe)
    /\ (RunOver /\ run.rec \in DOMAIN records)
          => /\ records[run.rec].status = "completed" => run.store \in {"rows", "empty"}
             /\ records[run.rec].status = "query_failed" => run.store = "error"

\* C4 happens: a run has ended with its record completed on the rows the store gave
C4_Witness == RunOver /\ run.store = "rows" /\ records[run.rec].status = "completed"

\* C5 as stated: query_result and query_dataframe of a record are both present or both
\* absent, and present exactly when the record's status is completed.
C5_ResultIffCompleted ==
    \A id \in DOMAIN records :
        /\ Present(records[id].query_result) <=> Present(records[id].query_dataframe)
        /\ Present(records[id].query_result) <=> records[id].status = "completed"

\* C5 as amended: query_dataframe is present only together with query_result; a completed
\* record has both; a query_failed record has query_result (the failure text) and no
\* query_dataframe; a record that is generating, pending_execution or compliance_failed has
\* neither; a record in error has them only when the error is the failed save to the history.
C5_ResultFieldsByStatus ==
    \A id \in DOMAIN records :
        /\ Present(records[id].query_dataframe) => Present(records[id].query_result)
        /\ records[id].status = "completed"
              => Present(records[id].query_result) /\ Present(records[id].query_dataframe)
        /\ records[id].status = "query_failed"
              => Present(records[id].query_result) /\ IsNone(records[id].query_dataframe)
        /\ records[id].status \in {"generating", "pending_execution", "compliance_failed"}
              => IsNone(records[id].query_result) /\ IsNone(records[id].query_dataframe)
        /\ (records[id].status = "error" /\ Present(records[id].query_result))
              => records[id].error_message = PyStr(MsgHistoryErrorPrefix \o AddErrorText)

\* C5 happens: a record in the history is query_failed, with the failure text as its
\* query_result
C5_Witness ==
    \E k \in 1..Len(analysis_history) :
        /\ records[analysis_history[k]].status = "query_failed"
        /\ Present(records[analysis_history[k]].query_result)

\* C6: no exception raised by a generation, review or compliance collaborator call leaves
\* execute_new_analysis, continue_with_generated_sql or process_manual_sql: the run ends,
\* by return, with a record in status error (stated here for the runs in which
\* add_to_history does not fail; the claim says the same of its exceptions).
C6_NoExceptionEscapes ==
    (RunOver /\ run.raised_at # "" /\ ~run.add_failed)
        => /\ ~run.escaped
           /\ run.rec \in DOMAIN records
           /\ records[run.rec].status = "error"

\* C7: a run of process_manual_sql calls neither the generation nor the review
\* collaborator, and the SQL it gives to the compliance collaborator and to the executor
\* is the SQL the user supplied.
C7_ManualSqlSkipsReview ==
    run.kind = "manual"
        => /\ StagesCalled \cap {"generation", "review"} = {}
           /\ pc \in {"manual_compliance", "manual_execution"}
                 => \A k \in 1..Len(run.calls) :
                        run.calls[k].stage \in {"compliance", "execution"}
                            => run.calls[k].arg = frame.manual_sql

\* C8: a new analysis started while "enable manual intervention" is on stops after the
\* generation call: review, compliance and execution are not called (no choice of the
\* user stands between the generation and them).
C8_PausesAfterGeneration ==
    (run.kind = "auto" /\ run.paused) => StagesCalled \subseteq {"generation"}

C10_ExceptionTextStored ==
    (RunOver /\ run.raised_at # "")
        => /\ run.rec \in DOMAIN records
           /\ records[run.rec].status = "error"
           /\ records[run.rec].error_message.t = "str"
           /\ Contains(records[run.rec].error_message.v, run.raised_text)

\* the record of the k-th entry of the history
Entry(k) == records[analysis_history[k]]

\* C11: every record in the history whose status is error or query_failed carries a
\* non-empty error_message, every record whose status is compliance_failed carries its
\* compliance_report, and the record of a run whose SQL extraction gave nothing carries
\* the extraction-failure message.
C11_FailureRecordsExplained ==
    /\ \A k \in 1..Len(analysis_history) :
          /\ Entry(k).status \in {"error", "query_failed"}
                => Entry(k).error_message.t = "str" /\ Entry(k).error_message.v # <<>>
          /\ Entry(k).status = "compliance_failed" => Present(Entry(k).compliance_report)
    /\ (RunOver /\ run.extract_empty # "" /\ ~run.add_failed /\ run.rec \in DOMAIN records)
          => records[run.rec].error_message = PyStr(MsgExtractFailed)

\* the status the code gave the record of the run before it saved it
StatusBeforeSave ==
    CASE run.store \in {"rows", "empty"} -> "completed"
      [] run.store = "error" -> "query_failed"
      [] run.compliant = "no" -> "compliance_failed"
      [] OTHER -> "generating"

\* C12 as stated: when the add_to_history at the end of a pipeline function fails, the
\* append is retried directly; if the retry succeeds the record is in the history with the
\* status it had before the failure, the status tells of the failed save only if the retry
\* fails too, and the function does not raise.
C12_RetryKeepsStatus ==
    (RunOver /\ run.retried # "no")
        => /\ ~run.escaped
           /\ run.retried = "ok"
                 => Occurrences(run.rec) >= 1 /\ records[run.rec].status = StatusBeforeSave
           /\ run.retried = "failed" => records[run.rec].status = "error"

\* C12 as amended: when the add_to_history at the end of a pipeline function fails, the
\* record gets status error and the message of the failed save, then the append is retried
\* directly; a retry that succeeds leaves the record in the history (with that error
\* status), one that fails leaves the history as add_to_history left it; the function
\* does not raise.
C12_RetryMarksError ==
    (RunOver /\ run.retried # "no")
        => /\ ~run.escaped
           /\ run.add_failed
           /\ records[run.rec].status = "error"
           /\ records[run.rec].error_message = PyStr(MsgHistoryErrorPrefix \o AddErrorText)
           /\ run.retried = "ok" => Occurrences(run.rec) >= 1
           /\ Len(analysis_history) >= run.hlen

\* C12 happens: the save of a completed record failed before its append, the retry
\* succeeded, and the record is in the history once
C12_Witness ==
    /\ RunOver /\ run.retried = "ok" /\ run.store = "rows"
    /\ Occurrences(run.rec) = 1

\* C13 as stated: during an automatic run the status of the record names the furthest
\* stage reached: generating while the generation call runs, generated or reviewing while
\* the review call runs, reviewed or compliance_checking while the compliance call runs,
\* pending_execution while the query runs.
C13_StatusNamesStage ==
    (run.kind = "auto" /\ pc # "idle")
        => /\ pc = "generation" => records[run.rec].status = "generating"
           /\ pc = "review" => records[run.rec].status \in {"generated", "reviewing"}
           /\ pc = "compliance" => records[run.rec].status \in {"reviewed", "compliance_checking"}
           /\ pc = "execution" => records[run.rec].status = "pending_execution"

\* C13 as amended: during an automatic run the status of the record is generating from its
\* creation until the compliance report is stored (during the generation, the review and
\* the compliance call), pending_execution while the query runs, and one of completed,
\* query_failed, compliance_failed, error when the run is over; no record ever has the
\* status generated, reviewing, reviewed or compliance_checking.
C13_StatusByStage ==
    /\ (run.kind = "auto" /\ pc # "idle")
          => /\ pc \in {"generation", "review", "compliance"}
                   => records[run.rec].status = "generating" /\ ~run.pending
             /\ pc = "execution" => records[run.rec].status = "pending_execution" /\ run.pending
    /\ (RunOver /\ run.kind = "auto")
          => records[run.rec].status \in {"completed", "query_failed", "compliance_failed", "error"}
    /\ \A id \in DOMAIN records :
          records[id].status \in {"generating", "pending_execution", "completed",
                                  "query_failed", "compliance_failed", "error"}

\* C13 happens: the reviewed SQL is stored, the compliance call runs, and the status is
\* still generating
C13_Witness ==
    /\ run.kind = "auto" /\ pc = "compliance"
    /\ Present(records[run.rec].reviewed_sql)
    /\ records[run.rec].status = "generating"

\* sum(record["cost"] for record in the history hist)
RECURSIVE SumOfCosts(_)
SumOfCosts(hist) ==
    IF hist = <<>> THEN 0 ELSE records[Head(hist)].cost + SumOfCosts(Tail(hist))

\* C14: after any sequence of pipeline runs, reruns, deletions of records and clearings of
\* the history, llm_cost equals the sum of the cost fields of the records in the history.
C14_CostIsSumOfHistory == llm_cost = SumOfCosts(analysis_history)

\* C14 happens: two records were saved and one of them was deleted; the other is still in
\* the history
C14_Witness ==
    /\ pc = "idle" /\ run.kind = "none"
    /\ next_id >= 2
    /\ Len(analysis_history) >= 1

\* C15: in every reachable state no two entries of the history have the same id, also
\* after add_to_history failed and the append was retried directly, and after an except
\* branch called add_to_history for the record again.
C15_HistoryIdsUnique ==
    \A j, k \in 1..Len(analysis_history) : j # k => Entry(j).id # Entry(k).id

\* the stages in the order of the pipeline
StageOrder == <<"generation", "review", "compliance", "execution">>

C17_HistoryIsTerminal ==
    /\ \A k \in 1..Len(analysis_history) :
          Entry(k).status \in {"completed", "query_failed", "compliance_failed", "error"}
    /\ pc # "idle" => \A k \in 1..Len(analysis_history) : analysis_history[k] # frame.rec

\* C17 happens: a run classified non-compliant is over and its record is in the history
\* as compliance_failed
C17_Witness ==
    /\ RunOver /\ run.compliant = "no"
    /\ \E k \in 1..Len(analysis_history) :
          analysis_history[k] = run.rec /\ Entry(k).status = "compliance_failed"

\* the entries of hist whose id is not id, in their order
RECURSIVE Without(_, _)
Without(hist, id) ==
    IF hist = <<>> THEN <<>>
    ELSE IF Head(hist) = id THEN Without(Tail(hist), id)
    ELSE <<Head(hist)>> \o Without(Tail(hist), id)

\* C18: the delete button of a record removes exactly the entries of the history with the
\* id of that record; all other records stay in the history, in their order, with all
\* their fields unchanged.
C18_DeleteRemovesOnlyThatId ==
    [][\A cell_id \in 1..(MaxRecords + 1) :
          DeleteRecord(cell_id)
              => /\ analysis_history' = Without(analysis_history, cell_id)
                 /\ \A k \in 1..Len(analysis_history') :
                       /\ analysis_history'[k] \in DOMAIN records'
                       /\ records'[analysis_history'[k]] = records[analysis_history'[k]]
                 /\ Len(analysis_history') < Len(analysis_history)]_vars

\* C18 happens: of two records in the history the second was deleted, and the first is
\* still there
C18_Witness ==
    /\ pc = "idle" /\ run.kind = "none"
    /\ next_id = 2
    /\ analysis_history # <<>>
    /\ \A k \in 1..Len(analysis_history) : analysis_history[k] = 1

\* C19: a rerun (rerun_analysis, from the rerun button of a record) never changes a record
\* that is in the history: through the whole run every entry the history had keeps its
\* place and all its fields; the run works on a new record, with a new id and the
\* user_prompt of the record it reruns.
C19_RerunLeavesRecordsAlone ==
    [][run'.rerun_of # 0
          => /\ Len(analysis_history') >= Len(analysis_history)
             /\ \A k \in 1..Len(analysis_history) :
                   /\ analysis_history'[k] = analysis_history[k]
                   /\ records'[analysis_history[k]] = records[analysis_history[k]]
             /\ run'.rec # run'.rerun_of
             /\ \A k \in 1..run'.hlen : analysis_history'[k] # run'.rec
             /\ records'[run'.rec].id = run'.rec
             /\ records'[run'.rec].user_prompt = records'[run'.rerun_of].user_prompt]_vars

\* C19 happens: the rerun of a record with the request "p" is over, its new record is
\* completed and in the history, after the record it reruns
C19_Witness ==
    /\ RunOver /\ run.rerun_of # 0
    /\ records[run.rec].user_prompt = <<"p">>
    /\ records[run.rec].status = "completed"
    /\ Occurrences(run.rec) = 1
    /\ Occurrences(run.rerun_of) >= 1

\* C20 as stated: no record has both generated_sql and manual_sql; a record made by
\* process_manual_sql has manual_sql and no generated_sql, a record made by
\* execute_new_analysis has no manual_sql.
C20_SqlFieldsExclusive ==
    \A id \in DOMAIN records :
        /\ ~(Present(records[id].generated_sql) /\ Present(records[id].manual_sql))
        /\ records[id].manual_intervention
              => Present(records[id].manual_sql) /\ IsNone(records[id].generated_sql)
        /\ ~records[id].manual_intervention => IsNone(records[id].manual_sql)

\* C20 as amended: manual_intervention tells where a record comes from. A record made by
\* process_manual_sql has manual_intervention true and the SQL of the user, non-blank, in
\* manual_sql and in generated_sql alike; a record made by execute_new_analysis has
\* manual_intervention false and no manual_sql.
C20_ManualFlagMarksProvenance ==
    /\ \A id \in DOMAIN records :
          IF records[id].manual_intervention
          THEN /\ records[id].manual_sql.t = "str"
               /\ Strip(records[id].manual_sql.v) # <<>>
               /\ records[id].generated_sql = records[id].manual_sql
          ELSE IsNone(records[id].manual_sql)
    /\ (run.kind = "manual" /\ run.rec \in DOMAIN records)
          => /\ records[run.rec].manual_intervention
             /\ pc # "idle" => records[run.rec].manual_sql = PyStr(frame.manual_sql)
    /\ (run.kind = "auto" /\ run.rec \in DOMAIN records)
          => ~records[run.rec].manual_intervention

\* C20 happens: a run of process_manual_sql is over and its record, with the SQL of the
\* user in both fields, is in the history
C20_Witness ==
    /\ RunOver /\ run.kind = "manual" /\ Occurrences(run.rec) = 1
    /\ Present(records[run.rec].manual_sql)
    /\ Present(records[run.rec].generated_sql)

\* text contains the token tok, read character by character
Holds(text, tok) ==
    \E i \in 1..Len(text) :
        /\ i + Len(tok) - 1 <= Len(text)
        /\ \A j \in 1..Len(tok) : text[i + j - 1] = tok[j]

\* text contains "compliant" in any mix of upper and lower case
HoldsCompliantAnyCase(text) ==
    \E i \in 1..Len(text) :
        /\ i + 8 <= Len(text)
        /\ \A j \in 1..9 : text[i + j - 1] \in {TokCompliantEn[j], UpperCase[
               CHOOSE n \in 1..26 : LowerCase[n] = TokCompliantEn[j]]}

\* the decision as the claim words it
DecisionAsClaimed(text) ==
    IF Holds(text, TokCompliantPass) \/ HoldsCompliantAnyCase(text) THEN TRUE
    ELSE IF Holds(text, TokCompliance) /\ ~Holds(text, TokNotCompliant)
            /\ ~Holds(text, TokViolation) THEN TRUE
    ELSE FALSE

FieldOutput(field) == IF field.kind = "return" THEN field.sql ELSE <<>>
MatchOutput(match) == IF match.found THEN clean_sql_content(match.group) ELSE <<>>
SelectOutput(cleaned) == IF Contains(Upper(cleaned), KwSelect) THEN cleaned ELSE <<>>
StrategyOutput(k, response_text) ==
    CASE k = 1 -> FieldOutput(ExtractRawJson(response_text))
      [] k = 2 -> FieldOutput(ExtractJsonBlock(response_text))
      [] k = 3 -> MatchOutput(SqlFenceMatch(response_text))
      [] k = 4 -> MatchOutput(SelectSpanMatch(response_text))
      [] k = 5 -> SelectOutput(clean_sql_content(response_text))
      [] k = 6 -> MatchOutput(PatternMatch(response_text))
      [] OTHER -> clean_sql_content(response_text)

\* the first output that is not empty, <<>> when all are empty
FirstNonEmpty(outputs) ==
    IF \A k \in DOMAIN outputs : outputs[k] = <<>> THEN <<>>
    ELSE outputs[CHOOSE k \in DOMAIN outputs :
                     outputs[k] # <<>> /\ \A j \in 1..(k - 1) : outputs[j] = <<>>]

ExtractionOver == call.fn = "extract_sql_from_response" /\ call.done

\* C22: extract_sql_from_response returns the cleaned output of the first strategy, in the
\* order raw JSON object, json block, sql block, SELECT span, cleaned text holding SELECT,
\* statement patterns, cleaned text, whose cleaned output is not empty; a strategy that
\* matches but cleans to the empty string does not end the cascade.
C22_FirstNonEmptyStrategyReturns ==
    ExtractionOver
        => call.result = FirstNonEmpty([k \in 1..7 |-> StrategyOutput(k, call.arg)])

\* the strategy n evaluated last gave output: a result that is not empty is returned there
YieldReturned(n, output) ==
    output # <<>> => call.done /\ call.strategy = n /\ call.result = output

\* C23: whenever a strategy of extract_sql_from_response yields a cleaned result that is
\* not empty, the function returns that result there: the strategies are evaluated in
\* their order, and none is evaluated after one that yielded a result (stated of the
\* strategy evaluated last in every state of the call, so of every one evaluated).
C23_NonEmptyResultEndsCascade ==
    (call.fn = "extract_sql_from_response" /\ call.tried # <<>>)
        => /\ \A n \in 1..Len(call.tried) : call.tried[n] = n
           /\ YieldReturned(Len(call.tried), StrategyOutput(Len(call.tried), call.arg))
           /\ call.done => call.result = extract_sql_from_response(call.arg)

\* C23 happens: the sql block gave "SELECT 4;", which was returned, and the SELECT span,
\* which matches this response too, was not evaluated
C23_Witness ==
    /\ ExtractionOver
    /\ call.arg = RespBlockSql \o RespSelect
    /\ call.strategy = 3 /\ call.tried = <<1, 2, 3>>
    /\ call.result = <<"S","E","L","E","C","T"," ","4",";">>
    /\ SelectSpanMatch(call.arg).found

\* parsed is an object with a sqlquery and a reviewed_sqlquery field
HasBothFields(parsed) ==
    /\ parsed.ok
    /\ parsed.val.t = "dict"
    /\ DictHas(parsed.val, SqlFields[1])
    /\ DictHas(parsed.val, SqlFields[2])

\* for such an object the call returned the cleaned value of reviewed_sqlquery
ReviewedReturned(parsed) ==
    HasBothFields(parsed)
        => call.result = clean_sql_content(Str(DictGet(parsed.val, SqlFields[2])))

\* C24: for a response of the review collaborator that is an object with both a sqlquery
\* field (the original SQL) and a reviewed_sqlquery field, the SQL extracted as
\* reviewed_sql is the value of reviewed_sqlquery.
C24_ReviewedFieldPreferred ==
    (ExtractionOver /\ StartsWith(Strip(call.arg), <<"{">>))
        => ReviewedReturned(json_loads(call.arg))

\* the raw-JSON strategy met a text that starts like an object and does not parse
MalformedObject(response_text) ==
    StartsWith(Strip(response_text), <<"{">>) /\ ~json_loads(response_text).ok

\* C25: extract_sql_from_response raises for no response text (each call ends with a
\* returned str), and after an internal failure of a strategy (JSON that does not parse, a
\* recognised field whose value is no str) the following strategies are still evaluated in
\* their order: the call is not ended by the except branch.
C25_FailureFallsThrough ==
    ExtractionOver
        => /\ call.strategy # 0
           /\ call.tried = [n \in 1..Len(call.tried) |-> n]
           /\ MalformedObject(call.arg) => Len(call.tried) >= 2

\* C26: clean_sql_content is idempotent: for every text x, with quote characters, line
\* breaks, "--" and "#" comment lines or without, clean_sql_content(clean_sql_content(x))
\* is clean_sql_content(x).
C26_CleanIsIdempotent ==
    (call.fn = "clean_sql_content" /\ call.times = 2) => call.twice = call.once

----------------------------------------------------------------------------
(* The tables selected for a request.                                      *)

\* a call of the selection that has returned
Selected == call.fn = "extract_relevant_metadata" /\ call.done

NoDuplicates(tables) ==
    \A i \in 1..Len(tables) : \A j \in 1..Len(tables) : tables[i] = tables[j] => i = j

AtMostFiveKnownTables(tables, all_tables) ==
    /\ Len(tables) <= 5
    /\ NoDuplicates(tables)
    /\ \A i \in 1..Len(tables) : IsIn(tables[i], all_tables)

\* C27: whatever the request and the tables of the store, the selected list has at most
\* 5 entries, no entry twice, and only tables of the store.
C27_AtMostFiveKnownTables ==
    Selected => AtMostFiveKnownTables(call.result, call.arg.all_tables)

\* a request that matched more than five tables, cut to five
C27_Witness ==
    /\ Selected
    /\ Len(call.result) = 5
    /\ Len(identify_relevant_tablesNoLimit(call.arg.user_query, call.arg.all_tables)) > 5

\* the request holds no keyword of the map and no name of a table of the store
MatchesNothing(query_lower, all_tables) ==
    /\ \A k \in 1..Len(keyword_table_mapping) :
           ~Contains(query_lower, keyword_table_mapping[k].keyword)
    /\ \A k \in 1..Len(all_tables) : ~Contains(query_lower, Lower(all_tables[k]))

\* orders, order_items, products, customers, each when the store has it
CoreTablesOf(all_tables) ==
    (IF IsIn(orders, all_tables) THEN <<orders>> ELSE <<>>)
        \o (IF IsIn(order_items, all_tables) THEN <<order_items>> ELSE <<>>)
        \o (IF IsIn(products, all_tables) THEN <<products>> ELSE <<>>)
        \o (IF IsIn(customers, all_tables) THEN <<customers>> ELSE <<>>)

\* C28: a request that holds no keyword and no table name is given orders, order_items,
\* products and customers, restricted to the tables of the store, in that order.
C28_CoreTablesWhenNothingMatches ==
    Selected /\ MatchesNothing(Lower(call.arg.user_query), call.arg.all_tables)
        => call.result = CoreTablesOf(call.arg.all_tables)

\* such a request, not the empty one, on a store that lacks one of the four
C28_Witness ==
    /\ Selected
    /\ call.arg.user_query # <<>>
    /\ MatchesNothing(Lower(call.arg.user_query), call.arg.all_tables)
    /\ call.result = <<orders, order_items, customers>>

\* the store has orders, order_items and products
HasSalesTables(all_tables) ==
    IsIn(orders, all_tables) /\ IsIn(order_items, all_tables) /\ IsIn(products, all_tables)

\* C29: for the request "列出销售额最高的前10个产品" and a store that has orders,
\* order_items and products, the five selected tables include order_items and products.
C29_TopProductsRequest ==
    Selected /\ call.arg.user_query = RequestTopProducts /\ HasSalesTables(call.arg.all_tables)
        => IsIn(order_items, call.result) /\ IsIn(products, call.result)

\* the request on the full schema: the two keywords it holds fill the five places
C29_Witness ==
    /\ Selected
    /\ call.arg.user_query = RequestTopProducts
    /\ call.arg.all_tables = FullSchema
    /\ call.result = <<orders, order_items, products, product_categories, suppliers>>

----------------------------------------------------------------------------
(* The tables selected for the review of a generated SQL.                  *)

\* a review task that has been made
ReviewTaskMade == call.fn = "create_sql_review_task" /\ call.done

\* the SQL names at most five tables after FROM and JOIN, all of the store
ReferencesKnownTables(tables_in_query, all_tables) ==
    /\ Len(tables_in_query) <= 5
    /\ \A i \in 1..Len(tables_in_query) : IsIn(tables_in_query[i], all_tables)

\* C30: when the generated SQL names at most 5 tables after FROM and JOIN, all of them
\* tables of the store, the tables selected for the review stage include each of them.
C30_ReviewSchemaHasReferencedTables ==
    ReviewTaskMade /\ ReferencesKnownTables(call.tables_in_query, call.arg.all_tables)
        => \A i \in 1..Len(call.tables_in_query) : IsIn(call.tables_in_query[i], call.result)

----------------------------------------------------------------------------
(* run_query_to_dataframe by itself.                                       *)

\* the query has been rewritten
Rewritten == call.fn = "run_query_to_dataframe" /\ call.step \in {"read", "returned"}
                 /\ call.conn # "none"

\* C31: once the query is rewritten, no CURRENT_DATE - INTERVAL 'N days' is left in it,
\* whatever the day counts and however many of them the statement holds.
C31_EveryIntervalRewritten ==
    Rewritten =>
        ~Contains(call.processed_query,
                  <<"C","U","R","R","E","N","T","_","D","A","T","E"," ","-"," ",
                    "I","N","T","E","R","V","A","L"," ","'">>)

\* run_query_to_dataframe has returned
QueryReturned == call.fn = "run_query_to_dataframe" /\ call.done

\* C32: run_query_to_dataframe returns a pair whatever the query and whatever the store
\* does; when connecting or reading raised, the pair is None and the query-failed marker
\* followed by the text of the exception.
C32_FailureBecomesNoneAndMessage ==
    QueryReturned =>
        /\ Len(call.result) = 2
        /\ call.store = "error" =>
               /\ call.raised # <<>>
               /\ call.result = <<PyNone, MsgQueryFailedPrefix \o call.raised>>
        /\ call.store # "error" => call.raised = <<>> /\ call.result[1] # PyNone

\* the store refused a rewritten query
C32_Witness ==
    /\ QueryReturned
    /\ call.store = "error"
    /\ call.processed_query # call.arg
    /\ call.result[1] = PyNone

\* C33: when run_query_to_dataframe has returned, the connection it opened is closed,
\* whether the query succeeded or failed.
C33_ConnectionClosedOnReturn ==
    QueryReturned => call.conn # "open"

----------------------------------------------------------------------------
(* The pipeline and the executor.                                          *)

\* a run is over whose report was classified compliant and whose query gave no rows
RanWithoutRows == RunOver /\ run.compliant = "yes" /\ run.store = "empty"

\* the 'executed successfully, no rows' message and an empty table
HoldsEmptyResult(rec) ==
    /\ rec.query_result = PyStr(MsgNoRows)
    /\ rec.query_dataframe = PyDataFrame(<<>>)

\* C34 as stated: when the report is compliant and the store returns no rows, the record
\* ends with status completed, the no-rows message and an empty table.
C34_EmptyResultCompletes ==
    RanWithoutRows
        => records[run.rec].status = "completed" /\ HoldsEmptyResult(records[run.rec])

\* C34 as amended: the record holds the no-rows message and an empty table, not None; its
\* status is completed when add_to_history returned, and error when add_to_history raised.
C34_EmptyResultCompletesIfSaved ==
    RanWithoutRows
        => /\ HoldsEmptyResult(records[run.rec])
           /\ records[run.rec].status = IF run.add_failed THEN "error" ELSE "completed"

\* C34 happens: such a run of the manual path, with the record saved and completed
C34_Witness ==
    /\ RanWithoutRows /\ run.kind = "manual" /\ ~run.add_failed
    /\ Occurrences(run.rec) = 1
    /\ records[run.rec].status = "completed"
    /\ ~IsNone(records[run.rec].query_dataframe)

\* the k-th call of the run is a call of the executor
ExecutorCall(k) == run.calls[k].stage = "execution"

\* an earlier call of the run gave the same SQL to the compliance collaborator
SeenByCompliance(k) ==
    \E j \in 1..(k - 1) :
        run.calls[j].stage = "compliance" /\ run.calls[j].arg = run.calls[k].arg

\* C35: in both paths, the SQL given to run_query_to_dataframe is the SQL that was put
\* into the compliance request of the same run.
C35_ExecutedSqlWasChecked ==
    \A k \in 1..Len(run.calls) : ExecutorCall(k) => SeenByCompliance(k)

\* C35 happens: a manual run has executed the SQL of the reviewer, which is not the SQL
\* the user typed
C35_Witness ==
    /\ RunOver /\ run.kind = "manual" /\ run.store = "rows"
    /\ \E k \in 1..Len(run.calls) :
           /\ ExecutorCall(k)
           /\ run.calls[k].arg # <<>>
           /\ run.calls[k].arg # run.calls[1].arg

\* the k-th call of the run hands the reviewed SQL to the compliance collaborator or to
\* the executor
ChecksOrExecutes(k) == run.calls[k].stage \in {"compliance", "execution"}

\* C36: in neither path is the executor called with the empty string: when the reviewed
\* SQL was extracted as the empty string, no compliance check and no execution of it
\* follows.
C36_EmptySqlStops ==
    \A k \in 1..Len(run.calls) : ChecksOrExecutes(k) => run.calls[k].arg # <<>>

----------------------------------------------------------------------------
(* The shape of an extracted SQL.                                          *)

\* sql holds two whitespace characters in a row
HasWhitespaceRun(sql) ==
    \E i \in 1..(Len(sql) - 1) : sql[i] \in Whitespace /\ sql[i + 1] \in Whitespace

\* sql is one line that ends with ';' and holds no line break, no run of two whitespace
\* characters and no '--'
SingleLineStatement(sql) ==
    /\ EndsWith(sql, <<";">>)
    /\ ~Contains(sql, <<NL>>)
    /\ ~HasWhitespaceRun(sql)
    /\ ~Contains(sql, <<"-", "-">>)

\* C37: every value returned by extract_sql_from_response is the empty string or one line
\* that ends with ';' and holds no line break, no run of two whitespace characters and no
\* '--' comment marker.
C37_ResultIsEmptyOrSingleLine ==
    ExtractionOver => call.result = <<>> \/ SingleLineStatement(call.result)

\* C37 happens: a statement over two lines, with a comment and an indented second line,
\* was returned as one line
C37_Witness ==
    /\ ExtractionOver
    /\ call.arg = RespSelectLines
    /\ Contains(call.arg, <<NL>>) /\ HasWhitespaceRun(call.arg) /\ Contains(call.arg, <<"-", "-">>)
    /\ call.result = <<"s","e","l","e","c","t"," ","7"," ","f","r","o","m"," ","t",";">>

\* text is one statement on one line, closed by its only ';', that begins with WITH and
\* holds SELECT, outside a JSON object and a code fence
CteStatement(text) ==
    /\ StartsWith(Upper(text), KwWith \o <<" ">>)
    /\ Contains(Upper(text), KwSelect)
    /\ EndsWith(text, <<";">>)
    /\ ~Contains(SubSeq(text, 1, Len(text) - 1), <<";">>)
    /\ ~Contains(text, <<NL>>) /\ ~HasWhitespaceRun(text)
    /\ ~Contains(text, Fence) /\ ~Contains(text, <<"{">>)

\* C38: for a response that is one clean statement beginning with WITH and holding a
\* SELECT, extract_sql_from_response returns the whole statement, beginning with WITH.
C38_CteReturnedWhole ==
    (ExtractionOver /\ CteStatement(call.arg))
        => call.result = call.arg /\ StartsWith(Upper(call.result), KwWith)

----------------------------------------------------------------------------
(* Blank input.                                                            *)

\* a text that is empty or holds whitespace only
Blank(text) == Strip(text) = <<>>

\* the step is execute_new_analysis on a blank prompt, or process_manual_sql on blank SQL
BlankInputStep ==
    \/ \E user_prompt \in Prompts : Blank(user_prompt) /\ ExecuteNewAnalysis(user_prompt)
    \/ \E manual_sql \in ManualSqls, user_request \in Prompts :
          Blank(manual_sql) /\ ProcessManualSql(manual_sql, user_request)

\* no record is made and none is changed, no collaborator is called, and the history, the
\* cost and the current cell are as before
NothingDone ==
    /\ next_id' = next_id
    /\ \A id \in DOMAIN records' : id \in DOMAIN records /\ records'[id] = records[id]
    /\ pc' = "idle" /\ run'.calls = <<>>
    /\ UNCHANGED <<analysis_history, llm_cost, current_cell>>

\* C39: execute_new_analysis with an empty or whitespace-only prompt, and
\* process_manual_sql with empty or whitespace-only SQL, make no record, call no
\* collaborator and leave the history, llm_cost and current_cell as they are.
C39_BlankInputChangesNothing == [][BlankInputStep => NothingDone]_vars

\* C39 happens: a blank input was given in a session that has a record in its history,
\* which is the current cell
C39_Witness ==
    /\ run.kind = "blank"
    /\ pc = "idle"
    /\ Len(analysis_history) = 1 /\ current_cell = analysis_history[1]
    /\ DOMAIN records = {current_cell}

=============================================================================
